---------------------------- MODULE Spec2Model ----------------------------
(***************************************************************************)
(* A model of the music-library-cleanup scripts: music_renamer.py,         *)
(* music_metadata_fixer.py and album_mapper.py.                            *)
(*                                                                         *)
(* Text is a sequence of one-character strings.  Two characters outside    *)
(* ASCII are written by name: "\t" is the tab and "U+FF1A" is the          *)
(* fullwidth colon, which NFKC normalisation turns into ":".               *)
(***************************************************************************)
EXTENDS Integers, Sequences, FiniteSets, TLC

VARIABLES
    script,         \* the class at work: "renamer", "fixer" or "mapper"
    replaced_urls,  \* self.replaced_urls
    arg,            \* the argument of the first call of a method under test
    rets,           \* the calls made so far, in order, with what each returned
    metadata,       \* what extract_metadata returned: the album and year tags
    album,          \* the cleaned album name and the extracted year
    built,          \* the folder names and grouping keys built from them
    existing,       \* the names that exist in the target container
    desired,        \* the name wanted there: new_path.name, dest_file.name
    own,            \* the wanted path is the file's own: new_path == file_path
    resolved,       \* the name settled on, and the exists() calls it took
    dry_run,        \* self.dry_run
    metadata_only,  \* self.metadata_only
    filename_only,  \* self.filename_only
    albums_only,    \* self.albums_only of the fixer: the run organizes by
                    \* album, as every run of the mapper does
    run,            \* which run of the script on the tree this is: 1, 2
    origin,         \* the files as the first run found them
    files,          \* the directory: its files, their names and tags
    pc,             \* where the entry point at work stands: "start", "walk",
                    \* "root", "listed", "albums", "done", "cleaned",
                    \* "aborted"
    pending,        \* the files of this pass still to come
    virtual_files,  \* virtual_files of process_directory
    total_passes,   \* total_passes of process_directory
    total_changes,  \* total_changes of process_directory
    changes_in_pass,\* changes_in_pass of process_directory
    pass_stats,     \* pass_stats of process_directory
    stats,          \* self.stats
    filename_changes, \* self.filename_changes (renamer)
    error_details,  \* self.error_details (renamer)
    unique_files,   \* self.unique_files (fixer)
    file_actions,   \* self.file_actions (fixer)
    dirs,           \* the directories that exist, each a path from the parent
                    \* of directory_path down
    source_directory, \* the directory whose files are being grouped
    albums,         \* albums of the grouping pass: key -> the paths of the group
    devotional_files, \* devotional_files of process_directory_for_albums
    group,          \* the key of the group whose for loop is running
    visited,        \* the paths the for loops have been through
    todo,           \* the subdirectories process_directory has yet to visit
    created_albums, \* self.created_albums
    handled,        \* what the group loops logged: per file, its group's key,
                    \* the size of the group and what was done with the file
    deleted_count   \* deleted_count of delete_empty_folders

textVars == <<script, replaced_urls, arg, rets>>

keyVars == <<metadata, album, built>>

resolveVars == <<existing, desired, own, resolved>>

flagVars ==
    <<dry_run, metadata_only, filename_only, albums_only, run, origin>>

passVars ==
    <<pc, pending, virtual_files, total_passes, total_changes, changes_in_pass,
      pass_stats, stats>>

ledgerVars == <<filename_changes, error_details, unique_files, file_actions>>

albumVars ==
    <<dirs, source_directory, albums, devotional_files, group, visited, todo,
      created_albums, handled, deleted_count>>

schedVars == <<flagVars, files, passVars, ledgerVars, albumVars>>

vars == <<textVars, keyVars, resolveVars, schedVars>>

ZeroStats ==
    [processed |-> 0, renamed |-> 0, metadata_updated |-> 0, errors |-> 0,
     skipped |-> 0]

\* for album_key, files in albums.items(): no group's loop is running.
NoGroup == <<>>

\* No grouping pass and no deletion of empty folders has run.
NoAlbums ==
    /\ dirs = {}
    /\ source_directory = <<>>
    /\ albums = <<>>
    /\ devotional_files = {}
    /\ group = NoGroup
    /\ visited = {}
    /\ todo = {}
    /\ created_albums = <<>>
    /\ handled = {}
    /\ deleted_count = 0

\* No directory is being processed.
NoSched ==
    /\ NoAlbums
    /\ dry_run = FALSE
    /\ metadata_only = FALSE
    /\ filename_only = FALSE
    /\ albums_only = FALSE
    /\ run = 1
    /\ files = <<>>
    /\ origin = <<>>
    /\ pc = "idle"
    /\ pending = {}
    /\ virtual_files = <<>>
    /\ total_passes = 0
    /\ total_changes = 0
    /\ changes_in_pass = 0
    /\ pass_stats = ZeroStats
    /\ stats = ZeroStats
    /\ filename_changes = <<>>
    /\ error_details = <<>>
    /\ unique_files = {}
    /\ file_actions = <<>>

\* No album attributes are at hand.
NoAlbum ==
    /\ metadata = [album |-> <<>>, year |-> <<>>]
    /\ album = [name |-> <<>>, year |-> <<>>, cleaned |-> FALSE]
    /\ built = {}

\* No name is being resolved.
NoResolve ==
    /\ existing = {}
    /\ desired = <<>>
    /\ own = FALSE
    /\ resolved = [done |-> FALSE, name |-> <<>>, probes |-> 0]

\* No text method is under test.
NoText ==
    /\ replaced_urls = {}
    /\ arg = <<>>
    /\ rets = <<>>

(***************************************************************************)
(* Characters and character classes of the regular expressions.            *)
(***************************************************************************)
Digits == {"0", "1", "2", "3", "4", "5", "6", "7", "8", "9"}

LowerSeq == <<"a", "b", "c", "d", "e", "f", "g", "h", "i", "j", "k", "l", "m",
              "n", "o", "p", "q", "r", "s", "t", "u", "v", "w", "x", "y", "z">>

UpperSeq == <<"A", "B", "C", "D", "E", "F", "G", "H", "I", "J", "K", "L", "M",
              "N", "O", "P", "Q", "R", "S", "T", "U", "V", "W", "X", "Y", "Z">>

LowerSet == {LowerSeq[i] : i \in 1..26}

UpperSet == {UpperSeq[i] : i \in 1..26}

\* The place of c in the upper-case alphabet, or 0.
UpperIndex(c) ==
    IF c \in UpperSet THEN CHOOSE i \in 1..26 : UpperSeq[i] = c ELSE 0

\* The lower-case letter of place k, or c when k is 0.
LowerAt(c, k) == IF k = 0 THEN c ELSE LowerSeq[k]

\* str.lower() of one character.
ToLower(c) == LowerAt(c, UpperIndex(c))

\* str.lower() of a text.
LowerText(s) == [i \in DOMAIN s |-> ToLower(s[i])]

\* [a-zA-Z0-9]
AlNum == LowerSet \cup UpperSet \cup Digits

\* \s
WS == {" ", "\t"}

\* [-_\s]
SepChars == WS \cup {"-", "_"}

\* [\s\-_\.]
SepDotChars == SepChars \cup {"."}

\* [a-zA-Z0-9\-]
LabelChars == AlNum \cup {"-"}

\* invalid_chars = '<>:"/\\|?*'
InvalidChars == {"<", ">", ":", "\"", "/", "\\", "|", "?", "*"}

FullwidthColon == "U+FF1A"

(***************************************************************************)
(* Helpers on texts.                                                       *)
(***************************************************************************)
Drop(s, k) == SubSeq(s, k + 1, Len(s))

Take(s, k) == SubSeq(s, 1, k)

\* The length of the longest prefix of s whose characters are all in C.
PrefixLen(s, C) ==
    CHOOSE k \in 0..Len(s) :
        /\ \A j \in 1..k : s[j] \in C
        /\ k < Len(s) => s[k + 1] \notin C

\* The length of the longest suffix of s whose characters are all in C.
SuffixLen(s, C) ==
    CHOOSE k \in 0..Len(s) :
        /\ \A j \in (Len(s) - k + 1)..Len(s) : s[j] \in C
        /\ k < Len(s) => s[Len(s) - k] \notin C

\* The length of the longest prefix of s that holds no character of C.
PrefixLenNot(s, C) ==
    CHOOSE k \in 0..Len(s) :
        /\ \A j \in 1..k : s[j] \notin C
        /\ k < Len(s) => s[k + 1] \in C

\* The run of characters of C that starts at position i of s ends before this position.
RunEnd(s, i, C) == i + PrefixLen(Drop(s, i - 1), C)

\* s without its characters in C.
Without(s, C) == SelectSeq(s, LAMBDA c : c \notin C)

\* The literal lit stands at position i of s (compared in lower case: re.IGNORECASE).
LitAt(s, i, lit) ==
    /\ i >= 1
    /\ i + Len(lit) - 1 <= Len(s)
    /\ \A j \in 1..Len(lit) : ToLower(s[i + j - 1]) = lit[j]

\* The first position >= i of s that holds character c, or 0.
FirstAt(s, i, c) ==
    IF \E p \in i..Len(s) : s[p] = c
    THEN CHOOSE p \in i..Len(s) : s[p] = c /\ \A q \in i..(p - 1) : s[q] # c
    ELSE 0

\* The last position of s that holds character c, or 0.
LastOf(s, c) ==
    IF \E p \in 1..Len(s) : s[p] = c
    THEN CHOOSE p \in 1..Len(s) : s[p] = c /\ \A q \in (p + 1)..Len(s) : s[q] # c
    ELSE 0

\* str.strip(): without leading and trailing whitespace.
Strip(s) ==
    LET a == PrefixLen(s, WS)
        t == Drop(s, a)
    IN  Take(t, Len(t) - SuffixLen(t, WS))

\* The decimal digits of a number below 100, as str() writes them.
DigitSeq == <<"0", "1", "2", "3", "4", "5", "6", "7", "8", "9">>

IntToText(n) ==
    IF n < 10 THEN <<DigitSeq[n + 1]>>
    ELSE <<DigitSeq[(n \div 10) + 1], DigitSeq[(n % 10) + 1]>>

RECURSIVE TextToInt(_)
\* int() of a text of decimal digits.
TextToInt(s) ==
    IF s = <<>> THEN 0
    ELSE LET d == CHOOSE k \in 1..10 : DigitSeq[k] = s[Len(s)]
         IN  10 * TextToInt(Take(s, Len(s) - 1)) + (d - 1)

\* The literal lit stands at position i of s, case and all.
ExactAt(s, i, lit) ==
    /\ i >= 1
    /\ i + Len(lit) - 1 <= Len(s)
    /\ \A j \in 1..Len(lit) : s[i + j - 1] = lit[j]

(***************************************************************************)
(* The compiled patterns.  "renamer" is music_renamer.py and "fixer" is    *)
(* music_metadata_fixer.py: the two files compile different expressions    *)
(* under the same names.                                                   *)
(***************************************************************************)
Versions == {"renamer", "fixer"}

\* (?:320|256|192|160|128|96|64)
BitrateNumbers ==
    <<<<"3", "2", "0">>, <<"2", "5", "6">>, <<"1", "9", "2">>, <<"1", "6", "0">>,
      <<"1", "2", "8">>, <<"9", "6">>, <<"6", "4">>>>

\* (?:com|co|in|net|ws|io)
TLDs ==
    {<<"c", "o", "m">>, <<"c", "o">>, <<"i", "n">>, <<"n", "e", "t">>,
     <<"w", "s">>, <<"i", "o">>}

\* MUSIC_EXTENSIONS, without the dot.
MUSIC_EXTENSIONS ==
    {<<"m", "p", "3">>, <<"f", "l", "a", "c">>, <<"w", "a", "v">>, <<"a", "a", "c">>,
     <<"o", "g", "g">>, <<"m", "4", "a">>, <<"w", "m", "a">>, <<"o", "p", "u", "s">>,
     <<"a", "l", "a", "c">>, <<"a", "i", "f", "f">>, <<"d", "s", "d">>,
     <<"d", "f", "f">>, <<"d", "s", "f">>}

\* (?:320|...|64) matched at position a: the position after it, or 0.  No
\* alternative is the head of another, so at most one matches.
BitrateNumberEnd(s, a) ==
    IF \E k \in 1..7 : ExactAt(s, a, BitrateNumbers[k])
    THEN a + Len(BitrateNumbers[CHOOSE k \in 1..7 : ExactAt(s, a, BitrateNumbers[k])])
    ELSE 0

\* <letter>\s* matched at position p (0: what stands before did not match): the
\* position after it, or 0.
LetterThenSpaces(s, p, letter) ==
    IF p > 0 /\ LitAt(s, p, letter) THEN RunEnd(s, p + 1, WS) ELSE 0

\* s?[-_\s]* matched at position p (0: what stands before did not match).
OptionalSThenSeparators(s, p) ==
    IF p = 0 THEN 0
    ELSE RunEnd(s, IF LitAt(s, p, <<"s">>) THEN p + 1 ELSE p, SepChars)

\* [-_\s]* matched at position p (0: what stands before did not match).
SeparatorsAfter(s, p) == IF p = 0 THEN 0 ELSE RunEnd(s, p, SepChars)

\* bitrate_pattern of music_renamer.py, matched at position i: the position after
\* the match, or 0.
BitrateRenamerEnd(s, i) ==
    OptionalSThenSeparators(s,
        LetterThenSpaces(s,
            LetterThenSpaces(s,
                LetterThenSpaces(s,
                    SeparatorsAfter(s, BitrateNumberEnd(s, RunEnd(s, i, SepChars))),
                    <<"k">>),
                <<"b">>),
            <<"p">>))

\* \d+ matched at position a: the position after it, or 0.
DigitsEnd(s, a) == IF RunEnd(s, a, Digits) > a THEN RunEnd(s, a, Digits) ELSE 0

\* \s* matched at position p (0: what stands before did not match).
SpacesAfter(s, p) == IF p = 0 THEN 0 ELSE RunEnd(s, p, WS)

\* [Kk]bps\s* matched at position p (0: what stands before did not match).
KbpsThenSpaces(s, p) ==
    IF p > 0 /\ LitAt(s, p, <<"k", "b", "p", "s">>) THEN RunEnd(s, p + 4, WS) ELSE 0

\* bitrate_pattern of music_metadata_fixer.py, matched at position i.
BitrateFixerEnd(s, i) ==
    KbpsThenSpaces(s, SpacesAfter(s, DigitsEnd(s, RunEnd(s, i, WS))))

\* \[\s*\] with its closing bracket expected at position a.
ClosedAt(s, i, a) ==
    IF ExactAt(s, i, <<"[">>) /\ ExactAt(s, a, <<"]">>) THEN a + 1 ELSE 0

\* empty_brackets_pattern of music_renamer.py, matched at position i.
EmptyBracketsRenamerEnd(s, i) == ClosedAt(s, i, RunEnd(s, i + 1, WS))

\* empty_brackets_pattern of music_metadata_fixer.py, matched at position i.
EmptyBracketsFixerEnd(s, i) ==
    SpacesAfter(s, EmptyBracketsRenamerEnd(s, RunEnd(s, i, WS)))

\* "__FTPRESERVE", the head of a placeholder.
PlaceholderHead == <<"_", "_", "F", "T", "P", "R", "E", "S", "E", "R", "V", "E">>

\* f"__FTPRESERVE{n}__"
Placeholder(n) == PlaceholderHead \o IntToText(n) \o <<"_", "_">>

\* ft_pattern, (\[[^\]]+\]\.ft|ft\.\[[^\]]+\]) with re.IGNORECASE, matched at
\* position i: the position after the match, or 0.
FtEnd(s, i) ==
    LET p == FirstAt(s, i + 1, "]")
        q == FirstAt(s, i + 4, "]")
    IN  IF ExactAt(s, i, <<"[">>) /\ p > i + 1 /\ LitAt(s, p + 1, <<".", "f", "t">>)
        THEN p + 4
        ELSE IF LitAt(s, i, <<"f", "t", ".", "[">>) /\ q > i + 4
        THEN q + 1
        ELSE 0

\* The closing "__" of a placeholder at position b (0: what stands before did not
\* match): the position after it, or 0.
ClosingAt(s, b) == IF b > 0 /\ ExactAt(s, b, <<"_", "_">>) THEN b + 2 ELSE 0

\* __FTPRESERVE(\d+)__ matched at position i: the position after it, or 0.
PlaceholderEnd(s, i) ==
    IF ExactAt(s, i, PlaceholderHead)
    THEN ClosingAt(s, DigitsEnd(s, i + Len(PlaceholderHead)))
    ELSE 0

\* (?:com|co|in|net|ws|io), in the order the alternatives are tried.
TLDOrder == <<<<"c", "o", "m">>, <<"c", "o">>, <<"i", "n">>, <<"n", "e", "t">>,
              <<"w", "s">>, <<"i", "o">>>>

\* (?:com|co|in|net|ws|io) matched at position p: the position after the first
\* alternative that matches, or 0.
TLDEnd(s, p) ==
    IF \E k \in 1..6 : LitAt(s, p, TLDOrder[k])
    THEN p + Len(TLDOrder[CHOOSE k \in 1..6 :
                     /\ LitAt(s, p, TLDOrder[k])
                     /\ \A j \in 1..(k - 1) : ~LitAt(s, p, TLDOrder[j])])
    ELSE 0

\* The label from position a to before b, then \.(?:com|co|in|net|ws|io): the
\* fixer's label starts and ends with a letter or digit and has at most 63
\* characters.
DomainBetween(ver, s, a, b) ==
    IF /\ b > a
       /\ ExactAt(s, b, <<".">>)
       /\ ver = "fixer" => s[a] \in AlNum /\ s[b - 1] \in AlNum /\ b - a <= 63
    THEN TLDEnd(s, b + 1)
    ELSE 0

\* <label>\.(?:com|co|in|net|ws|io) matched at position a, the label being the
\* run of label characters that starts there: the position after the match, or 0.
DomainEnd(ver, s, a) == DomainBetween(ver, s, a, RunEnd(s, a, LabelChars))

\* The length of the (?:www\.|https?://) at position i, or 0.
SchemeLen(s, i) ==
    IF LitAt(s, i, <<"w", "w", "w", ".">>) THEN 4
    ELSE IF LitAt(s, i, <<"h", "t", "t", "p", "s", ":", "/", "/">>) THEN 8
    ELSE IF LitAt(s, i, <<"h", "t", "t", "p", ":", "/", "/">>) THEN 7
    ELSE 0

\* A match: where it ends (0: no match) and the text findall reports for it.
Found(s, a, e, end) == [end |-> end, found |-> SubSeq(s, a, e - 1)]

\* The fixer's website_pattern, its domain from position a to before e.
FixerWebsite(s, a, e) ==
    IF e = 0 THEN Found(s, 1, 1, 0) ELSE Found(s, a, e, RunEnd(s, e, SepChars))

\* The renamer's website_pattern at position i: with the scheme if a domain
\* follows it (it ends before withScheme), without it otherwise.
RenamerWebsite(ver, s, i, withScheme) ==
    IF withScheme > 0 THEN Found(s, i, withScheme, withScheme)
    ELSE Found(s, i, DomainEnd(ver, s, i), DomainEnd(ver, s, i))

\* The domain after a scheme of plen characters at position i.
AfterScheme(ver, s, i, plen) == IF plen > 0 THEN DomainEnd(ver, s, i + plen) ELSE 0

\* website_pattern matched at position i (re.search, not fullmatch).
WebsiteAt(ver, s, i) ==
    IF ver = "fixer"
    THEN FixerWebsite(s, RunEnd(s, i, SepChars),
                      DomainEnd(ver, s, RunEnd(s, i, SepChars)))
    ELSE RenamerWebsite(ver, s, i, AfterScheme(ver, s, i, SchemeLen(s, i)))

\* re.search from position i on, ends[p] being the position after the match at
\* position p (0: no match there): the first position with a match, or 0.
NextMatch(ends, i) ==
    IF \E p \in i..Len(ends) : ends[p] > p
    THEN CHOOSE p \in i..Len(ends) :
             /\ ends[p] > p
             /\ \A q \in i..(p - 1) : ~(ends[q] > q)
    ELSE 0

RECURSIVE SubAll(_, _, _)
\* The next match starts at p (0: none): what stands before it is kept, the
\* match is dropped.
SubAllFrom(s, ends, i, p) ==
    IF p = 0 THEN Drop(s, i - 1)
    ELSE SubSeq(s, i, p - 1) \o SubAll(s, ends, ends[p])

\* pattern.sub('', s) from position i on: matches are taken leftmost first and do
\* not overlap.
SubAll(s, ends, i) == SubAllFrom(s, ends, i, NextMatch(ends, i))

\* bitrate_pattern.sub('', s).
RemoveBitrate(ver, s) ==
    SubAll(s,
           [p \in DOMAIN s |-> IF ver = "fixer" THEN BitrateFixerEnd(s, p)
                               ELSE BitrateRenamerEnd(s, p)],
           1)

\* empty_brackets_pattern.sub('', s).
RemoveEmptyBrackets(ver, s) ==
    SubAll(s,
           [p \in DOMAIN s |-> IF ver = "fixer" THEN EmptyBracketsFixerEnd(s, p)
                               ELSE EmptyBracketsRenamerEnd(s, p)],
           1)

\* leading_numbers_pattern.sub('', s).
StripLeading(ver, s) ==
    IF ver = "fixer"
    THEN Drop(s, PrefixLen(s, Digits \cup SepDotChars \cup {"[", "]"}))
    ELSE LET k == PrefixLen(s, Digits \cup SepDotChars)
             p == FirstAt(s, 2, "]")
         IN  IF k > 0 THEN Drop(s, k)
             ELSE IF ExactAt(s, 1, <<"[">>) /\ p > 0
                  THEN Drop(s, RunEnd(s, p + 1, SepDotChars) - 1)
                  ELSE s

\* trailing_separator_pattern.sub('', s).
StripTrailingSeparators(s) == Take(s, Len(s) - SuffixLen(s, SepChars))

\* The text in front of the bracket that opens at position j (0: none does),
\* without the separators seps that end it.
BeforeBracket(s, j, seps) ==
    IF j > 0 THEN Take(s, j - 1 - SuffixLen(Take(s, j - 1), seps)) ELSE s

\* The first "[" of s after its last "]", or 0.
LastOpening(s) == FirstAt(s, LastOf(s, "]") + 1, "[")

\* trailing_brackets_pattern.sub('', s) where s ends at position n: the bracket
\* that closes there opens at the first "[" after the last "]" before it.
StripBracketAt(s, n, seps) ==
    IF n >= 1 /\ s[n] = "]"
    THEN BeforeBracket(s, LastOpening(Take(s, n - 1)), seps)
    ELSE s

\* trailing_brackets_pattern.sub('', s): the fixer lets whitespace follow the
\* bracket and takes whitespace in front of it, the renamer takes [\s\-_\.].
StripTrailingBrackets(ver, s) ==
    IF ver = "fixer" THEN StripBracketAt(s, Len(s) - SuffixLen(s, WS), WS)
    ELSE StripBracketAt(s, Len(s), SepDotChars)

\* s with each run of whitespace marked: a space where it starts, "" for the
\* rest of it.
MarkRuns(s) ==
    [i \in DOMAIN s |-> IF s[i] \notin WS THEN s[i]
                        ELSE IF i > 1 /\ s[i - 1] \in WS THEN "" ELSE " "]

\* multiple_spaces_pattern.sub(' ', s) of the fixer: \s+ becomes one space.
CollapseSpaces(s) == SelectSeq(MarkRuns(s), LAMBDA c : c # "")

\* multiple_spaces_pattern.sub(' ', s): the renamer's pattern is \s, so each
\* whitespace character becomes one space and runs are kept.
NormalizeSpaces(ver, s) ==
    IF ver = "fixer" THEN CollapseSpaces(s)
    ELSE [i \in DOMAIN s |-> IF s[i] \in WS THEN " " ELSE s[i]]

\* unicodedata.normalize('NFKC', s) on the characters of the model.
NFKC(s) == [i \in DOMAIN s |-> IF s[i] = FullwidthColon THEN ":" ELSE s[i]]

\* [a-zA-Z0-9\-]+ matches all of t.
IsLabelText(t) == t # <<>> /\ \A i \in DOMAIN t : t[i] \in LabelChars

\* head without the (?:www\.|https?://) it starts with.
WithoutScheme(head) ==
    IF LitAt(head, 1, <<"w", "w", "w", ".">>) THEN Drop(head, 4)
    ELSE IF LitAt(head, 1, <<"h", "t", "t", "p", ":", "/", "/">>) THEN Drop(head, 7)
    ELSE IF LitAt(head, 1, <<"h", "t", "t", "p", "s", ":", "/", "/">>) THEN Drop(head, 8)
    ELSE head

\* What stands before the last dot is a label: for the renamer with or without
\* a scheme in front, for the fixer of at most 63 characters.
IsLabel(ver, head) ==
    IF ver = "fixer" THEN IsLabelText(head) /\ Len(head) <= 63
    ELSE IsLabelText(head) \/ IsLabelText(WithoutScheme(head))

\* core is a label, a dot at position d and a top-level domain.
IsDomainAt(ver, core, d) ==
    /\ d > 1
    /\ LowerText(Drop(core, d)) \in TLDs
    /\ IsLabel(ver, Take(core, d - 1))

\* core is a label, a dot and a top-level domain.
IsDomain(ver, core) == IsDomainAt(ver, core, LastOf(core, "."))

\* website_pattern.fullmatch(part), on a part that holds no "-", "_" or " ": the
\* fixer's pattern lets whitespace stand around the domain.
IsWebsite(ver, part) ==
    IF ver = "fixer" THEN IsDomain(ver, Strip(part)) ELSE IsDomain(ver, part)

\* [\-_ ]: the separators re.split cuts the name at.
SplitChars == {"-", "_", " "}

\* part.strip('-_ ')
StripSplitChars(part) ==
    LET t == Drop(part, PrefixLen(part, SplitChars))
    IN  Take(t, Len(t) - SuffixLen(t, SplitChars))

\* replaced_urls.add(part.strip('-_ ')) if that is not empty.
CleanedUrl(u) == IF u # <<>> THEN {u} ELSE {}

\* text and urls in front of the result r of the rest.
WithRest(text, urls, r) == [text |-> text \o r.text, urls |-> urls \cup r.urls]

\* re.split(r'([\-_ ])', name): the positions of s where a part starts.
PartStarts(s) ==
    {p \in DOMAIN s : s[p] \notin SplitChars /\ (p = 1 \/ s[p - 1] \in SplitChars)}

\* The part that starts at position p.
PartAt(s, p) == SubSeq(s, p, p + PrefixLenNot(Drop(s, p - 1), SplitChars) - 1)

\* s without the parts that start at the positions starts, and what those parts
\* add to replaced_urls.
RemoveParts(s, starts) ==
    [text |-> SelectSeq([j \in DOMAIN s |->
                            IF \E p \in starts : p <= j /\ j < p + Len(PartAt(s, p))
                            THEN "" ELSE s[j]],
                        LAMBDA c : c # ""),
     urls |-> UNION {CleanedUrl(StripSplitChars(PartAt(s, p))) : p \in starts}]

\* Step 2 of clean_filename: the name is split at [\-_ ], the parts that are a
\* website are dropped and recorded, the rest is joined again.
RemoveWebsites(ver, s) ==
    RemoveParts(s, {p \in PartStarts(s) : IsWebsite(ver, PartAt(s, p))})

\* text and the preserved tokens in front of the result r of the rest.
WithPreserved(text, tokens, r) ==
    [text |-> text \o r.text, preserved |-> tokens \o r.preserved]

RECURSIVE PreserveFrom(_, _, _, _)
\* preserve_ft on the next token, which starts at p (0: none): the token is
\* appended to preserved and a placeholder stands for it.
PreserveToken(s, ends, i, n, p) ==
    IF p = 0 THEN [text |-> Drop(s, i - 1), preserved |-> <<>>]
    ELSE WithPreserved(SubSeq(s, i, p - 1) \o Placeholder(n),
                       <<SubSeq(s, p, ends[p] - 1)>>,
                       PreserveFrom(s, ends, ends[p], n + 1))

\* ft_pattern.sub(preserve_ft, name) from position i on, with n tokens preserved
\* so far.
PreserveFrom(s, ends, i, n) == PreserveToken(s, ends, i, n, NextMatch(ends, i))

\* ft_pattern.sub(preserve_ft, name): the text with placeholders, and the
\* preserved tokens in order.
PreserveFt(s) == PreserveFrom(s, [p \in DOMAIN s |-> FtEnd(s, p)], 1, 0)

\* text, which count calls of restore_ft returned, in front of the result r of
\* the rest.
WithRestored(text, count, r) ==
    [text |-> text \o r.text, raised |-> r.raised, restored |-> count + r.restored]

RECURSIVE RestoreFrom(_, _, _, _)
\* restore_ft on the placeholder of index idx that ends before e: preserved[idx],
\* or the IndexError (raised) when no such token was preserved.
RestoreToken(s, ends, e, preserved, idx) ==
    IF idx + 1 > Len(preserved) THEN [text |-> <<>>, raised |-> TRUE, restored |-> 0]
    ELSE WithRestored(preserved[idx + 1], 1, RestoreFrom(s, ends, e, preserved))

\* The next placeholder starts at p (0: none).
RestoreNext(s, ends, i, preserved, p) ==
    IF p = 0 THEN [text |-> Drop(s, i - 1), raised |-> FALSE, restored |-> 0]
    ELSE WithRestored(SubSeq(s, i, p - 1), 0,
                      RestoreToken(s, ends, ends[p], preserved,
                                   TextToInt(SubSeq(s, p + Len(PlaceholderHead),
                                                    ends[p] - 3))))

\* re.sub(r'__FTPRESERVE(\d+)__', restore_ft, name) from position i on.
RestoreFrom(s, ends, i, preserved) ==
    RestoreNext(s, ends, i, preserved, NextMatch(ends, i))

\* re.sub(r'__FTPRESERVE(\d+)__', restore_ft, name): the text, whether restore_ft
\* raised, and how many placeholders it restored.
RestoreFt(s, preserved) ==
    RestoreFrom(s, [p \in DOMAIN s |-> PlaceholderEnd(s, p)], 1, preserved)

\* The two extensions e1.e2 at the end of a name are collapsed: by the renamer if
\* both are music extensions, by the fixer if the second repeats the first.
Repeated(ver, e1, e2) ==
    IF ver = "fixer"
    THEN /\ e1 # <<>>
         /\ \A i \in DOMAIN e1 : e1[i] \in AlNum
         /\ LowerText(e1) = LowerText(e2)
    ELSE LowerText(e1) \in MUSIC_EXTENSIONS /\ LowerText(e2) \in MUSIC_EXTENSIONS

\* s with its last two dots at positions d1 and d2 (0: no such dot).
CollapseBetween(ver, s, d1, d2) ==
    IF d1 > 0 /\ Repeated(ver, SubSeq(s, d1 + 1, d2 - 1), Drop(s, d2))
    THEN Take(s, d2 - 1)
    ELSE s

\* s with its last dot at position d2 (0: no dot).
CollapseAt(ver, s, d2) ==
    IF d2 > 0 THEN CollapseBetween(ver, s, LastOf(Take(s, d2 - 1), "."), d2) ELSE s

\* repeated_extension_pattern.sub(r'.\1', filename).
CollapseExtension(ver, s) == CollapseAt(ver, s, LastOf(s, "."))

\* os.path.splitext(filename): the extension starts at the last dot, unless only
\* dots stand before it.
SplitExt(s) ==
    LET d == LastOf(s, ".")
    IN  IF d > 0 /\ \E i \in 1..(d - 1) : s[i] # "."
        THEN [name |-> Take(s, d - 1), ext |-> Drop(s, d - 1)]
        ELSE [name |-> s, ext |-> <<>>]

\* Path.suffix: the last dot and what follows it, unless the name starts or ends
\* with that dot.
SplitExtSuffix(name) ==
    LET d == LastOf(name, ".")
    IN  IF d > 1 /\ d < Len(name) THEN Drop(name, d - 1) ELSE <<>>

\* is_music_file(file_path): the suffix, lower-cased, is a music extension.
is_music_file(name) ==
    LET ext == SplitExtSuffix(name)
    IN  ext # <<>> /\ LowerText(Tail(ext)) \in MUSIC_EXTENSIONS

DotMp3 == <<".", "m", "p", "3">>

UnknownTrack == <<"U", "n", "k", "n", "o", "w", "n", " ", "T", "r", "a", "c", "k">>

\* Steps 3 to 9 of clean_filename and the last strip of the leading run, on the
\* name without its websites.
CleanName(ver, name) ==
    StripLeading(ver,
        Without(NFKC(Strip(NormalizeSpaces(ver,
            RemoveEmptyBrackets(ver,
                StripTrailingBrackets(ver,
                    RemoveBitrate(ver, StripTrailingSeparators(name))))))),
            InvalidChars))

\* What clean_filename returns: the restored name, or "Unknown Track" if it is
\* empty, with the extension; nothing if restore_ft raised.
Cleaned(back, ext, urls, emitted) ==
    [name |-> IF back.raised THEN <<>>
              ELSE (IF back.text = <<>> THEN UnknownTrack ELSE back.text) \o ext,
     urls |-> urls,
     raised |-> back.raised,
     emitted |-> emitted,
     restored |-> back.restored]

\* clean_filename from step 2 on: web is the name without its websites.
CleanWeb(ver, preserved, ext, web) ==
    Cleaned(RestoreFt(CleanName(ver, web.text), preserved), ext, web.urls,
            Len(preserved))

\* clean_filename from step 1 on: ft is the name with its placeholders.
CleanPreserved(ver, ft, ext) ==
    CleanWeb(ver, ft.preserved, ext, RemoveWebsites(ver, StripLeading(ver, ft.text)))

\* clean_filename on the name and the extension.
CleanParts(ver, parts) == CleanPreserved(ver, PreserveFt(parts.name), parts.ext)

\* MusicRenamer.clean_filename(filename): the cleaned name, the websites it adds
\* to replaced_urls, whether restore_ft raised, and how many placeholders
\* preserve_ft emitted and restore_ft restored.
clean_filename(ver, filename) ==
    CleanParts(ver, SplitExt(CollapseExtension(ver, filename)))

RECURSIVE SubWebsitesFrom(_, _, _)
\* The next match starts at p (0: none): it is dropped and recorded, what stands
\* before it from i on is kept.
SubWebsitesMatch(s, matches, i, p) ==
    IF p = 0 THEN [text |-> Drop(s, i - 1), urls |-> {}]
    ELSE WithRest(SubSeq(s, i, p - 1), CleanedUrl(StripSplitChars(matches[p].found)),
                  SubWebsitesFrom(s, matches, matches[p].end))

\* website_pattern.sub('', text) from position i on.
SubWebsitesFrom(s, matches, i) ==
    SubWebsitesMatch(s, matches, i,
                     NextMatch([p \in DOMAIN matches |-> matches[p].end], i))

\* website_pattern.sub('', text), with the cleaned matches that clean_text adds
\* to replaced_urls.
SubWebsites(ver, s) ==
    SubWebsitesFrom(s, [p \in DOMAIN s |-> WebsiteAt(ver, s, p)], 1)

\* Steps 3 to 8 of clean_text, on the text without its websites.
CleanTextBody(ver, text) ==
    NFKC(Strip(NormalizeSpaces(ver,
        RemoveEmptyBrackets(ver,
            StripTrailingBrackets(ver, RemoveBitrate(ver, text))))))

\* What clean_text returns: the restored text; nothing if restore_ft raised.
CleanedText(back, urls, emitted) ==
    [name |-> IF back.raised THEN <<>> ELSE back.text,
     urls |-> urls,
     raised |-> back.raised,
     emitted |-> emitted,
     restored |-> back.restored]

\* clean_text from step 2 on: web is the text without its websites.
CleanTextWeb(ver, preserved, web) ==
    CleanedText(RestoreFt(CleanTextBody(ver, web.text), preserved), web.urls,
                Len(preserved))

\* clean_text from step 1 on: ft is the text with its placeholders.  The fixer
\* keeps the leading run of an album.
CleanTextPreserved(ver, ft, is_album) ==
    CleanTextWeb(ver, ft.preserved,
                 SubWebsites(ver,
                             IF ver = "fixer" /\ is_album THEN ft.text
                             ELSE StripLeading(ver, ft.text)))

\* MusicRenamer.clean_text(text, is_album): the cleaned text, the websites it adds
\* to replaced_urls, and whether restore_ft raised.  The renamer has no is_album
\* and always strips the leading run.
clean_text(ver, text, is_album) ==
    IF text = <<>>
    THEN [name |-> text, urls |-> {}, raised |-> FALSE, emitted |-> 0, restored |-> 0]
    ELSE CleanTextPreserved(ver, PreserveFt(text), is_album)

(***************************************************************************)
(* Album attributes: album_mapper.py (AlbumMapper, "mapper") and the album *)
(* methods of music_metadata_fixer.py ("fixer").                           *)
(***************************************************************************)
\* \w
WordChars == AlNum \cup {"_"}

\* \b at position i of s: between s[i-1] and s[i], one is a word character and
\* the other is not (the ends of s count as not).
WordBoundary(s, i) ==
    (i > 1 /\ i - 1 <= Len(s) /\ s[i - 1] \in WordChars)
        # (i >= 1 /\ i <= Len(s) /\ s[i] \in WordChars)

\* sub occurs in s at position i.
Contains(s, sub) == \E i \in 1..(Len(s) - Len(sub) + 1) : ExactAt(s, i, sub)

UnknownAlbum ==
    <<"U", "n", "k", "n", "o", "w", "n", " ", "A", "l", "b", "u", "m">>

\* ' '.join(s.split()): whitespace runs become one space, none at the ends.
JoinSplit(s) == Strip(CollapseSpaces(s))

\* clean_album_name(album_name), the same in both files.
clean_album_name(album_name) ==
    IF album_name = <<>> \/ album_name = UnknownAlbum THEN UnknownAlbum
    ELSE LET t == Strip(JoinSplit(Without(album_name, InvalidChars)))
         IN  IF t = <<>> THEN UnknownAlbum ELSE t

\* (19|20)\d{2} without the two \b: the pattern year_pattern is not.
YearAtAny(s, i) ==
    /\ ExactAt(s, i, <<"1", "9">>) \/ ExactAt(s, i, <<"2", "0">>)
    /\ i + 3 <= Len(s)
    /\ s[i + 2] \in Digits
    /\ s[i + 3] \in Digits

\* year_pattern, \b(19|20)\d{2}\b, matches at position i of s.
YearAt(s, i) ==
    /\ WordBoundary(s, i)
    /\ ExactAt(s, i, <<"1", "9">>) \/ ExactAt(s, i, <<"2", "0">>)
    /\ i + 3 <= Len(s)
    /\ s[i + 2] \in Digits
    /\ s[i + 3] \in Digits
    /\ WordBoundary(s, i + 4)

\* extract_year(year_string), the same in both files: the first match of
\* year_pattern, or ''.
extract_year(year_string) ==
    IF \E i \in 1..Len(year_string) : YearAt(year_string, i)
    THEN LET i == CHOOSE x \in 1..Len(year_string) :
                      /\ YearAt(year_string, x)
                      /\ \A y \in 1..(x - 1) : ~YearAt(year_string, y)
         IN  SubSeq(year_string, i, i + 3)
    ELSE <<>>

\* re.search(pattern, album_name) for the three patterns of
\* AlbumMapper.create_album_folder_name: \(year\), \[year\] and \byear\b.
YearDecorated(album_name, year) ==
    \/ Contains(album_name, <<"(">> \o year \o <<")">>)
    \/ Contains(album_name, <<"[">> \o year \o <<"]">>)
    \/ \E i \in 1..Len(album_name) :
          /\ WordBoundary(album_name, i)
          /\ ExactAt(album_name, i, year)
          /\ WordBoundary(album_name, i + Len(year))

\* f"{album_name} ({year})"
WithYear(album_name, year) == album_name \o <<" ", "(">> \o year \o <<")">>

\* create_album_folder_name(album_name, year) of AlbumMapper ("mapper") and of
\* the fixer's MusicRenamer ("fixer").
create_album_folder_name(ver, album_name, year) ==
    IF year = <<>> THEN album_name
    ELSE IF ver = "mapper"
    THEN IF YearDecorated(album_name, year) THEN album_name
         ELSE WithYear(album_name, year)
    ELSE IF ~Contains(album_name, year) THEN WithYear(album_name, year)
         ELSE album_name

\* album_key of process_directory_for_albums (fixer) and of
\* process_music_directory (mapper): the key the files are grouped under.
album_key(ver, album_name, year) ==
    IF ver = "mapper" THEN create_album_folder_name(ver, album_name, year)
    ELSE IF year # <<>> THEN WithYear(album_name, year) ELSE album_name

(***************************************************************************)
(* The album attributes of one file: its tags are cleaned, and the folder  *)
(* name and the grouping key are built from them.                          *)
(***************************************************************************)
\* The most pieces an album tag is made of.
MaxAlbumTokens == 2

Year1999 == <<"1", "9", "9", "9">>

\* The pieces the album tags are made of.
AlbumTokens ==
    {Year1999, <<"(">> \o Year1999 \o <<")">>, <<"[">> \o Year1999 \o <<"]">>,
     <<"T", "o", "u", "r">>, <<" ">>, <<"a">>, <<":">>}

RECURSIVE AlbumTextsOf(_)
\* The album tags made of at most n pieces.
AlbumTextsOf(n) ==
    IF n = 0 THEN {<<>>}
    ELSE LET shorter == AlbumTextsOf(n - 1)
         IN  shorter \cup {t \o k : t \in shorter, k \in AlbumTokens}

\* The year tags: none, a year, a date, another year, no year, a year glued to
\* a letter or to a digit, and a glued year before a free one.
YearTags ==
    {<<>>, Year1999, Year1999 \o <<"-", "0", "5">>, <<"2", "0", "0", "1">>,
     <<"1", "9", "9">>, <<"a">> \o Year1999, Year1999 \o <<"1">>,
     <<"v">> \o Year1999 \o <<" ", "2", "0", "0", "1">>}

\* The classes that organize by album.
Organizers == {"mapper", "fixer"}

InitKey ==
    /\ script \in Organizers
    /\ metadata \in [album : AlbumTextsOf(MaxAlbumTokens), year : YearTags]
    /\ album = [name |-> <<>>, year |-> <<>>, cleaned |-> FALSE]
    /\ built = {}
    /\ NoText
    /\ NoResolve
    /\ NoSched

\* album_name = self.clean_album_name(metadata['album']) and
\* year = self.extract_year(metadata['year'])
CleanAlbum ==
    /\ ~album.cleaned
    /\ album' = [name |-> clean_album_name(metadata.album),
                 year |-> extract_year(metadata.year), cleaned |-> TRUE]
    /\ UNCHANGED <<metadata, built, textVars, resolveVars, schedVars>>

\* self.create_album_folder_name(album_name, year)
CreateAlbumFolderName ==
    /\ album.cleaned
    /\ built' = built \cup
          {[by |-> "create_album_folder_name",
            text |-> create_album_folder_name(script, album.name, album.year)]}
    /\ UNCHANGED <<metadata, album, textVars, resolveVars, schedVars>>

\* The grouping key of process_directory_for_albums (fixer) and of
\* process_music_directory (mapper).
BuildAlbumKey ==
    /\ album.cleaned
    /\ built' = built \cup
          {[by |-> "album_key",
            text |-> album_key(script, album.name, album.year)]}
    /\ UNCHANGED <<metadata, album, textVars, resolveVars, schedVars>>

NextKey == CleanAlbum \/ CreateAlbumFolderName \/ BuildAlbumKey

SpecKey == InitKey /\ [][NextKey]_vars

\* sub occurs in s at two places that do not overlap.
OccursTwice(s, sub) ==
    \E i \in 1..Len(s) : \E j \in (i + Len(sub))..Len(s) :
        ExactAt(s, i, sub) /\ ExactAt(s, j, sub)

\* C5: an album folder name or grouping key built from a cleaned album name and
\* an extracted year never holds the year at two places that do not overlap
\* (the names that hold the year twice before anything is built are left
\* aside).
C5_YearOnce ==
    \A b \in built :
        (album.year # <<>> /\ ~OccursTwice(album.name, album.year))
            => ~OccursTwice(b.text, album.year)

\* year stands in s as a token of its own: no letter, digit or underscore next
\* to it.
BareToken(s, year) ==
    \E i \in 1..Len(s) :
        /\ ExactAt(s, i, year)
        /\ i > 1 => s[i - 1] \notin WordChars
        /\ i + Len(year) <= Len(s) => s[i + Len(year)] \notin WordChars

\* The name already shows the year: in parentheses, in brackets or as a token
\* of its own.
ShowsYear(s, year) ==
    \/ Contains(s, <<"(">> \o year \o <<")">>)
    \/ Contains(s, <<"[">> \o year \o <<"]">>)
    \/ BareToken(s, year)

\* C16: create_album_folder_name returns the name as it is when the year is
\* empty or the name already shows it, and '{name} ({year})' in every other
\* case, also when the year only stands glued inside a longer word or number.
C16_YearAppendedUnlessShown ==
    \A b \in built :
        b.by = "create_album_folder_name" =>
            b.text = IF album.year = <<>> \/ ShowsYear(album.name, album.year)
                     THEN album.name
                     ELSE WithYear(album.name, album.year)

\* Four digits of the shape 19xx or 20xx stand at position i of s.
YearRunAt(s, i) ==
    /\ i + 3 <= Len(s)
    /\ <<s[i], s[i + 1]>> \in {<<"1", "9">>, <<"2", "0">>}
    /\ s[i + 2] \in Digits /\ s[i + 3] \in Digits

\* The run at position i has no letter, digit or underscore next to it.
Free(s, i) ==
    /\ i > 1 => s[i - 1] \notin WordChars
    /\ i + 4 <= Len(s) => s[i + 4] \notin WordChars

\* The first place of s in the set, 0 if there is none.
First(places) ==
    IF places = {} THEN 0
    ELSE CHOOSE i \in places : \A j \in places : i <= j

\* The four characters of s at the place, nothing at place 0.
FourAt(s, place) == IF place = 0 THEN <<>> ELSE SubSeq(s, place, place + 3)

\* C17 as the claim states it: extract_year returns the first run of the shape
\* 19xx or 20xx anywhere in the year tag, also next to a letter or a digit, and
\* '' exactly when the tag holds no such run.
C17_FirstYearRun ==
    album.cleaned =>
        album.year = FourAt(metadata.year,
                            First({i \in 1..Len(metadata.year) :
                                      YearRunAt(metadata.year, i)}))

\* C17, amended: extract_year returns the first run of the shape 19xx or 20xx
\* of the year tag that has no letter, digit or underscore next to it, and ''
\* exactly when the tag holds no such run.
C17_FirstFreeYearRun ==
    album.cleaned =>
        album.year = FourAt(metadata.year,
                            First({i \in 1..Len(metadata.year) :
                                      /\ YearRunAt(metadata.year, i)
                                      /\ Free(metadata.year, i)}))

\* A year tag with a glued run before a free one has been through
\* extract_year, which returned the free one.
C17_Witness ==
    /\ album.cleaned
    /\ album.year = <<"2", "0", "0", "1">>
    /\ YearRunAt(metadata.year, 2)
    /\ ~Free(metadata.year, 2)

(***************************************************************************)
(* Name conflicts: the name a file gets in a container where the wanted    *)
(* name may exist.  The same loop stands in process_file of the renamer    *)
(* and of the fixer, in process_album_file and in AlbumMapper.process_file.*)
(***************************************************************************)
\* f"{name_without_ext} ({counter}){ext}", with
\* name_without_ext, ext = os.path.splitext(name)
Numbered(name, counter) ==
    SplitExt(name).name \o <<" ", "(">> \o IntToText(counter) \o <<")">>
        \o SplitExt(name).ext

RECURSIVE Probe(_, _, _, _, _)
\* while new_path.exists(): new_path = the numbered name; counter += 1
\* Each test of the loop is one more exists() call.
Probe(names, name, candidate, counter, probes) ==
    IF candidate \in names
    THEN Probe(names, name, Numbered(name, counter), counter + 1, probes + 1)
    ELSE [name |-> candidate, probes |-> probes + 1]

\* The same without the test new_path != file_path.
resolve_any(names, name, is_own) ==
    IF name \in names THEN Probe(names, name, name, 1, 1)
    ELSE [name |-> name, probes |-> 1]

\* if new_path.exists() and new_path != file_path: counter = 1; while ...
\* names: the names that exist in the container; is_own: new_path == file_path.
resolve(names, name, is_own) ==
    IF name \in names /\ ~is_own THEN Probe(names, name, name, 1, 1)
    ELSE [name |-> name, probes |-> 1]

\* The most numbered names that exist beside a wanted name.
MaxNumbered == 3

Song == <<"S", "o", "n", "g">>

\* The wanted names: with an extension, without one, with two dots, and a name
\* that is all extension.
WantedNames == {Song \o DotMp3, Song, <<"a", ".", "b">> \o DotMp3, DotMp3}

\* The names a container may hold beside the wanted one.
Beside(name) ==
    {Numbered(name, n) : n \in 1..MaxNumbered} \cup {<<"x">> \o DotMp3}

InitResolve ==
    /\ script \in Versions \cup Organizers
    /\ desired \in WantedNames
    /\ existing \in SUBSET ({desired} \cup Beside(desired))
    /\ own \in {o \in BOOLEAN : o => desired \in existing}
    /\ resolved = [done |-> FALSE, name |-> <<>>, probes |-> 0]
    /\ replaced_urls = {}
    /\ arg = <<>>
    /\ rets = <<>>
    /\ NoAlbum
    /\ NoSched

\* The conflict handling of process_file, process_album_file and
\* AlbumMapper.process_file.
Resolve ==
    /\ ~resolved.done
    /\ resolved' = [done |-> TRUE,
                    name |-> resolve(existing, desired, own).name,
                    probes |-> resolve(existing, desired, own).probes]
    /\ UNCHANGED <<existing, desired, own, textVars, keyVars, schedVars>>

NextResolve == Resolve

SpecResolve == InitResolve /\ [][NextResolve]_vars

\* The existing names that conflict: the wanted name and its numbered forms.
Conflicting ==
    {n \in existing :
        n = desired \/ \E c \in 1..(MaxNumbered + 1) : n = Numbered(desired, c)}

\* The wanted name is returned when it is free or the file's own; otherwise the
\* numbered name with the smallest number from 1 that does not exist; it took
\* at most the conflicting names and extra more exists() calls.
ResolvedWithin(extra) ==
    resolved.done =>
        /\ (desired \notin existing \/ own) => resolved.name = desired
        /\ (desired \in existing /\ ~own) =>
              /\ resolved.name \notin existing
              /\ \E n \in 1..(MaxNumbered + 1) :
                    /\ resolved.name =
                          SplitExt(desired).name \o <<" ", "(">> \o IntToText(n)
                              \o <<")">> \o SplitExt(desired).ext
                    /\ \A m \in 1..(n - 1) : Numbered(desired, m) \in existing
        /\ resolved.probes <= Cardinality(Conflicting) + extra

\* C6: conflict handling returns the wanted name when it is free or the file's
\* own, and otherwise 'stem (n)ext' for the smallest n >= 1 that does not
\* exist, found after at most k + 1 probes when k conflicting names exist.
C6_WithinKPlusOne == ResolvedWithin(1)

\* C6, amended: the same, found after at most k + 2 exists() calls: the wanted
\* name is tested twice, by the if and by the first turn of the while.
C6_WithinKPlusTwo == ResolvedWithin(2)

\* C6, witness: two numbered names existed beside the wanted one and the third
\* numbered name was settled on.
C6_Witness ==
    /\ resolved.done
    /\ ~own
    /\ Cardinality(Conflicting) = 3
    /\ resolved.name = Numbered(desired, 3)
    /\ resolved.probes = 5

(***************************************************************************)
(* The files and the methods that work on one of them.  A file is a record *)
(* of its directory (a path: the sequence of the directory names from the  *)
(* parent of the processed directory on), its name and its title, artist,  *)
(* album and year tags (an empty text: no such tag); fs, the files, is a   *)
(* function from 1..n to the files.                                        *)
(***************************************************************************)
\* The names of the files that exist in the directory dir.
FileNames(fs, dir) == {fs[i].name : i \in {j \in DOMAIN fs : fs[j].dir = dir}}

\* The file of that name in the directory dir.
FileNamed(fs, dir, name) ==
    CHOOSE i \in DOMAIN fs : fs[i].dir = dir /\ fs[i].name = name

\* The input/output call that raises for the file dir / name: "read" for
\* File(str(file_path)), "save" for audio.save(), "rename" for
\* file_path.rename and shutil.move, "probe" for the exists() calls made for
\* the file, "mkdir" for album_folder.mkdir; "none" for a file every call
\* works on.
FaultOf(fs, dir, name) ==
    IF name \in FileNames(fs, dir) THEN fs[FileNamed(fs, dir, name)].fault
    ELSE "none"

\* The tags of file f as clean_text returned them: t the title, a the artist,
\* b the album.  An exception of one clean_text leaves the later ones undone.
TagsCleaned(f, t, a, b) ==
    [raised |-> t.raised \/ a.raised \/ b.raised,
     changed |-> t.name # f.title \/ a.name # f.artist \/ b.name # f.album,
     title |-> t.name,
     artist |-> a.name,
     album |-> b.name,
     urls |-> t.urls \cup (IF t.raised THEN {}
                           ELSE a.urls \cup (IF a.raised THEN {} ELSE b.urls))]

\* _clean_id3_tags(tags, changes_log): title, artist and album go through
\* clean_text, the album with is_album=True in the fixer.
clean_id3_tags(ver, f) ==
    TagsCleaned(f, clean_text(ver, f.title, FALSE),
                clean_text(ver, f.artist, FALSE),
                clean_text(ver, f.album, ver = "fixer"))

\* audio.save() is called on the file f, whose tags were cleaned to c.
Saves(dry, f, c) == ~c.raised /\ c.changed /\ ~dry

\* clean_metadata once the tags of file i are cleaned (c): an exception, of
\* the cleaning or of audio.save(), is caught and reported; changed tags are
\* saved unless dry_run.
MetadataCleaned(dry, fs, i, c) ==
    [success |-> ~c.raised /\ ~(Saves(dry, fs[i], c) /\ fs[i].fault = "save"),
     updated |-> ~c.raised /\ c.changed
                    /\ ~(Saves(dry, fs[i], c) /\ fs[i].fault = "save"),
     files |-> IF Saves(dry, fs[i], c) /\ fs[i].fault # "save"
               THEN [fs EXCEPT ![i].title = c.title, ![i].artist = c.artist,
                               ![i].album = c.album]
               ELSE fs,
     urls |-> c.urls]

\* clean_metadata(file_path): File(str(file_path)) raises when no file has that
\* name or the file cannot be read, which is caught and reported.
clean_metadata(ver, dry, fs, dir, name) ==
    IF name \notin FileNames(fs, dir) \/ FaultOf(fs, dir, name) = "read"
    THEN [success |-> FALSE, updated |-> FALSE, files |-> fs, urls |-> {}]
    ELSE MetadataCleaned(dry, fs, FileNamed(fs, dir, name),
                         clean_id3_tags(ver, fs[FileNamed(fs, dir, name)]))

\* The file name part of process_file when metadata_only is set.
Untouched(fs, name) ==
    [failed |-> FALSE, changed |-> FALSE, logged |-> FALSE, final |-> name,
     path |-> name, files |-> fs, urls |-> {}]

\* The file name part of process_file from the rename on: the change is logged,
\* and the file is renamed to final unless dry_run.  file_path.rename raises
\* when there is no file of that name or the file cannot be renamed.
Renamed(dry, fs, dir, name, final, urls) ==
    IF dry
    THEN [failed |-> FALSE, changed |-> TRUE, logged |-> TRUE, final |-> final,
          path |-> name, files |-> fs, urls |-> urls]
    ELSE IF name \notin FileNames(fs, dir) \/ FaultOf(fs, dir, name) = "rename"
    THEN [failed |-> TRUE, changed |-> FALSE, logged |-> TRUE, final |-> final,
          path |-> name, files |-> fs, urls |-> urls]
    ELSE [failed |-> FALSE, changed |-> TRUE, logged |-> TRUE, final |-> final,
          path |-> final,
          files |-> [fs EXCEPT ![FileNamed(fs, dir, name)].name = final],
          urls |-> urls]

\* The file name part of process_file, c being what clean_filename returned:
\* a changed name is settled against the directory (new_path != file_path
\* holds, the names differ) and the file renamed.  new_path.exists() may
\* raise.
FilenameCleaned(dry, fs, dir, name, c) ==
    IF c.raised \/ (c.name # name /\ FaultOf(fs, dir, name) = "probe")
    THEN [failed |-> TRUE, changed |-> FALSE, logged |-> FALSE, final |-> name,
          path |-> name, files |-> fs, urls |-> c.urls]
    ELSE IF c.name = name
    THEN [failed |-> FALSE, changed |-> FALSE, logged |-> FALSE, final |-> name,
          path |-> name, files |-> fs, urls |-> c.urls]
    ELSE Renamed(dry, fs, dir, name,
                 resolve(FileNames(fs, dir), c.name, FALSE).name, c.urls)

\* return False, "Not a music file"
NotMusic(fs) ==
    [music |-> FALSE, success |-> FALSE, filename_changed |-> FALSE,
     metadata_changed |-> FALSE, logged |-> FALSE, final |-> <<>>,
     filename_error |-> FALSE, metadata_error |-> FALSE, files |-> fs,
     urls |-> {}]

\* The outer except of process_file: return False, error_msg.
Failed(a) ==
    [music |-> TRUE, success |-> FALSE, filename_changed |-> FALSE,
     metadata_changed |-> FALSE, logged |-> a.logged, final |-> a.final,
     filename_error |-> FALSE, metadata_error |-> FALSE, files |-> a.files,
     urls |-> a.urls]

\* process_file if a failure of clean_metadata were an error of the whole
\* file: return False, with the rename not reported.
FinishedOrFailed(a, m) ==
    IF ~m.success THEN Failed([a EXCEPT !.files = m.files])
    ELSE [music |-> TRUE, success |-> TRUE, filename_changed |-> a.changed,
          metadata_changed |-> m.updated, logged |-> a.logged,
          final |-> a.final, filename_error |-> a.failed,
          metadata_error |-> FALSE, files |-> m.files,
          urls |-> a.urls \cup m.urls]

\* The end of process_file: a the file name part, m what clean_metadata
\* returned.  return True, "; ".join(results) or "No changes needed".
Finished(a, m) ==
    [music |-> TRUE, success |-> TRUE, filename_changed |-> a.changed,
     metadata_changed |-> m.success /\ m.updated, logged |-> a.logged,
     final |-> a.final, filename_error |-> a.failed,
     metadata_error |-> ~m.success, files |-> m.files,
     urls |-> a.urls \cup m.urls]

\* The metadata part of process_file, on the path the file name part left.
MetadataPart(ver, dry, fo, dir, a) ==
    IF fo
    THEN Finished(a, [success |-> TRUE, updated |-> FALSE, files |-> a.files,
                      urls |-> {}])
    ELSE Finished(a, clean_metadata(ver, dry, a.files, dir, a.path))

\* process_file after the file name part: an exception there ends the renamer's
\* process_file; the fixer catches it and goes on with the metadata.
AfterFilename(ver, dry, fo, dir, a) ==
    IF a.failed /\ ver = "renamer" THEN Failed(a)
    ELSE MetadataPart(ver, dry, fo, dir, a)

\* MusicRenamer.process_file(file_path) on the path dir / name, with the flags
\* dry_run (dry), metadata_only (mo) and filename_only (fo).
process_file(ver, dry, mo, fo, fs, dir, name) ==
    IF ~is_music_file(name) THEN NotMusic(fs)
    ELSE AfterFilename(ver, dry, fo, dir,
             IF mo THEN Untouched(fs, name)
             ELSE FilenameCleaned(dry, fs, dir, name, clean_filename(ver, name)))

\* The arrow of the log lines, one character.
Arrow == "U+2192"

\* ' -> ' between the two quoted names of a result line.
QuotedArrow == <<"'", " ", Arrow, " ", "'">>

\* The first place of line where QuotedArrow stands.
ArrowAt(line) ==
    CHOOSE i \in 1..Len(line) :
        /\ ExactAt(line, i, QuotedArrow)
        /\ \A j \in 1..(i - 1) : ~ExactAt(line, j, QuotedArrow)

\* (.+?)' on rest: the shortest text of one character or more that a quote
\* follows.
UpToQuote(rest) ==
    Take(rest, (CHOOSE j \in 2..Len(rest) :
                   /\ rest[j] = "'"
                   /\ \A k \in 2..(j - 1) : rest[k] # "'") - 1)

\* re.search(r"filename: '.*?' -> '(.+?)'", result).group(1) on the result
\* "filename: 'original' -> 'final'...": what the scheduler takes for the new
\* name.
ExtractNewName(original, final) ==
    UpToQuote(Drop(original \o QuotedArrow \o final \o <<"'">>,
                   ArrowAt(original \o QuotedArrow \o final \o <<"'">>) + 4))

(***************************************************************************)
(* process_directory of the renamer and of the fixer: passes over the      *)
(* directory until a pass changes nothing.  One step per file of a pass.   *)
(* The directory has no subdirectory here.                                 *)
(***************************************************************************)
\* The processed directory, directory_path, as a path.
RootDir == <<<<"m", "u", "s", "i", "c">>>>

\* if total_passes > 10: the safety check of process_directory.
PassCeiling == 10

\* The most files of the directory.
MaxFiles == 2

\* The file names of the directories.
FilePool ==
    <<<<"0", "1", " ", "a">> \o DotMp3, <<"0", "2", " ", "a">> \o DotMp3,
      <<"a">> \o DotMp3, <<":", "b", ".", "c", "o">> \o DotMp3,
      <<"0", "1", " ", "i", "t", "'", "s">> \o DotMp3,
      <<"n", "o", "t", "e", "s", ".", "t", "x", "t">>>>

\* The tags of the files: clean ones, and a title and an album to be cleaned.
TagPool ==
    {[title |-> <<"a">>, artist |-> <<"b">>, album |-> <<>>],
     [title |-> <<"0", "1", " ", "a">>, artist |-> <<"b">>,
      album |-> <<"0", "1", " ", "c">>]}

\* The file of that name and those tags.
FileOf(name, tags) ==
    [dir |-> RootDir, name |-> name, title |-> tags.title,
     artist |-> tags.artist, album |-> tags.album, year |-> <<>>,
     fault |-> "none"]

\* The ways to pick n names of the pool, each once.
Picks(n) ==
    {pick \in [1..n -> DOMAIN FilePool] :
        \A i \in 1..(n - 1) : pick[i] < pick[i + 1]}

\* The directories: up to MaxFiles files of different names.
Directories ==
    UNION {{[i \in 1..n |-> FileOf(FilePool[pick[i]], tags[i])] :
               pick \in Picks(n), tags \in [1..n -> TagPool]} :
           n \in 1..MaxFiles}

InitSched ==
    /\ script \in Versions
    /\ dry_run \in BOOLEAN
    /\ metadata_only \in BOOLEAN
    /\ filename_only \in BOOLEAN
    /\ albums_only = FALSE
    /\ run = 1
    /\ files \in Directories
    /\ origin = files
    /\ pc = "start"
    /\ pending = {}
    /\ virtual_files = <<>>
    /\ total_passes = 0
    /\ total_changes = 0
    /\ changes_in_pass = 0
    /\ pass_stats = ZeroStats
    /\ stats = ZeroStats
    /\ filename_changes = <<>>
    /\ error_details = <<>>
    /\ unique_files = {}
    /\ file_actions = <<>>
    /\ NoText
    /\ NoAlbum
    /\ NoResolve
    /\ NoAlbums

\* os.walk(directory_path) of the renamer lists every file;
\* walk_with_depth_limit of the fixer lists the music files.
Walk(ver, fs) ==
    IF ver = "fixer" THEN {n \in FileNames(fs, RootDir) : is_music_file(n)}
    ELSE FileNames(fs, RootDir)

\* The head of the while loop: pass_stats and changes_in_pass are reset and
\* the directory is listed.
StartPass ==
    /\ ~albums_only
    /\ pc = "start"
    /\ pc' = "walk"
    /\ pending' = Walk(script, files)
    /\ pass_stats' = ZeroStats
    /\ changes_in_pass' = 0
    /\ UNCHANGED <<virtual_files, total_passes, total_changes, stats, flagVars,
                   files, ledgerVars, textVars, keyVars, resolveVars,
                   albumVars>>

\* The name process_file is called on for the listed path: in dry_run the
\* virtual name, when there is one.
PathName(path) ==
    IF dry_run /\ path \in DOMAIN virtual_files THEN virtual_files[path]
    ELSE path

\* d[key] = value
Put(d, key, value) ==
    [k \in DOMAIN d \cup {key} |-> IF k = key THEN value ELSE d[k]]

\* pass_stats after process_file returned r.
Counted(ps, r) ==
    [processed |-> ps.processed + 1,
     renamed |-> ps.renamed + (IF r.success /\ r.filename_changed THEN 1 ELSE 0),
     metadata_updated |->
         ps.metadata_updated + (IF r.success /\ r.metadata_changed THEN 1 ELSE 0),
     errors |-> ps.errors + (IF r.success THEN 0 ELSE 1),
     skipped |-> ps.skipped
         + (IF r.success /\ ~r.filename_changed /\ ~r.metadata_changed
            THEN 1 ELSE 0)]

\* The changes counted when a failed call counts as one.
ChangesOrErrors(r) ==
    IF r.success
    THEN (IF r.filename_changed THEN 1 ELSE 0)
             + (IF r.metadata_changed THEN 1 ELSE 0)
    ELSE 1

\* The changes process_file reported in r.
Changes(r) ==
    (IF r.success /\ r.filename_changed THEN 1 ELSE 0)
        + (IF r.success /\ r.metadata_changed THEN 1 ELSE 0)

\* The entry of file_actions for a key not met before.
NoAction == [rename |-> <<>>, metadata |-> FALSE, errors |-> 0]

\* The entry e of file_actions after process_file on name returned r.
ActedOn(e, name, r) ==
    [rename |-> IF r.logged THEN <<name, r.final>> ELSE e.rename,
     metadata |-> e.metadata \/ r.metadata_changed,
     errors |-> e.errors + (IF r.filename_error THEN 1 ELSE 0)
                  + (IF r.metadata_error THEN 1 ELSE 0)
                  + (IF r.success THEN 0 ELSE 1)]

\* The ledgers after process_file on name returned r: filename_changes and
\* error_details in the renamer, unique_files and file_actions in the fixer.
Ledgered(key, name, r) ==
    IF script = "renamer"
    THEN /\ filename_changes' =
               IF r.logged
               THEN Append(filename_changes, [original |-> name, final |-> r.final])
               ELSE filename_changes
         /\ error_details' =
               IF r.music /\ ~r.success THEN Append(error_details, name)
               ELSE error_details
         /\ UNCHANGED <<unique_files, file_actions>>
    ELSE /\ unique_files' = IF r.music THEN unique_files \cup {key}
                            ELSE unique_files
         /\ file_actions' =
               IF r.music
               THEN Put(file_actions, key,
                        ActedOn(IF key \in DOMAIN file_actions
                                THEN file_actions[key] ELSE NoAction, name, r))
               ELSE file_actions
         /\ UNCHANGED <<filename_changes, error_details>>

\* The body of the for loop for the listed path, name being the name
\* process_file was called on and r what it returned.
Walked(path, name, r) ==
    /\ pending' = pending \ {path}
    /\ files' = r.files
    /\ replaced_urls' = replaced_urls \cup r.urls
    /\ pass_stats' = Counted(pass_stats, r)
    /\ changes_in_pass' = changes_in_pass + Changes(r)
    /\ virtual_files' =
          IF r.success /\ r.filename_changed /\ dry_run
          THEN Put(virtual_files, path, ExtractNewName(name, r.final))
          ELSE virtual_files
    /\ Ledgered([dir |-> RootDir, name |-> name], name, r)
    /\ UNCHANGED <<pc, total_passes, total_changes, stats, flagVars, script,
                   arg, rets, keyVars, resolveVars,
                   albumVars>>

\* One turn of the for loop: the next listed file, in any order.
ProcessFile ==
    /\ pc = "walk"
    /\ \E path \in pending :
          Walked(path, PathName(path),
                 process_file(script, dry_run, metadata_only, filename_only,
                              files, RootDir, PathName(path)))

\* self.stats after the pass.
Added(st, ps) ==
    [processed |-> st.processed + ps.processed,
     renamed |-> st.renamed + ps.renamed,
     metadata_updated |-> st.metadata_updated + ps.metadata_updated,
     errors |-> st.errors + ps.errors,
     skipped |-> st.skipped + ps.skipped]

\* The end of a pass: the totals are updated; the loop ends when the pass
\* changed nothing, or when total_passes > 10.
EndPass ==
    /\ pc = "walk"
    /\ pending = {}
    /\ stats' = Added(stats, pass_stats)
    /\ total_changes' = total_changes + changes_in_pass
    /\ total_passes' = total_passes + 1
    /\ pc' = IF changes_in_pass = 0 \/ total_passes + 1 > PassCeiling
             THEN "done" ELSE "start"
    /\ UNCHANGED <<pending, virtual_files, changes_in_pass, pass_stats,
                   flagVars, files, ledgerVars, textVars, keyVars, resolveVars,
                   albumVars>>

NextSched == StartPass \/ ProcessFile \/ EndPass

SpecSched == InitSched /\ [][NextSched]_vars

\* C2: process_directory runs at most 10 passes, also when every pass changes
\* something.
C2_AtMostTenPasses == total_passes <= PassCeiling

\* The leaf name the run leaves file i with: its name in the directory, or in
\* dry_run the virtual name recorded for it.
FinalName(i) ==
    IF dry_run /\ files[i].name \in DOMAIN virtual_files
    THEN virtual_files[files[i].name]
    ELSE files[i].name

\* C7: at the end of a run, with or without dry_run, no two files of the
\* directory have the same final leaf name.
C7_FinalNamesDiffer ==
    pc = "done" =>
        \A i, j \in DOMAIN files : i # j => FinalName(i) # FinalName(j)

\* What process_file returns for the listed path in this state.
ResultFor(path) ==
    process_file(script, dry_run, metadata_only, filename_only, files, RootDir,
                 PathName(path))

\* C13: in dry_run, when a pass computes a new name for a listed file, that
\* name, whatever characters it holds, is the virtual name recorded under the
\* listed path, which is the name the next pass calls process_file on.
C13_VirtualNameIsFinalName ==
    [][\A path \in pending \ pending' :
          (dry_run /\ ResultFor(path).success
                   /\ ResultFor(path).filename_changed)
              => /\ path \in DOMAIN virtual_files'
                 /\ virtual_files'[path] = ResultFor(path).final]_vars

\* The leading run of digits of a text.
LeadingDigits(s) == Take(s, PrefixLen(s, Digits))

\* C15: no step of a run takes the leading digits off an album tag: an album
\* that starts with a digit starts with the same run of digits after every
\* tag write.
C15_AlbumNumeralKept ==
    [][\A i \in DOMAIN files :
          LeadingDigits(files[i].album) # <<>> =>
              LeadingDigits(files'[i].album) = LeadingDigits(files[i].album)]_vars

\* The pass counted a file renamed or a file's metadata updated.
PassChanged(ps) == ps.renamed + ps.metadata_updated >= 1

\* C21: the loop goes on to another pass only from a pass that renamed a file
\* or updated a file's metadata, and a pass that did neither, whatever failed
\* in it, is the last one; without dry_run a file counted as renamed or
\* updated is a file the directory holds changed.
C21_NextPassOnlyAfterChange ==
    [][/\ (pc = "walk" /\ pc' = "start") => PassChanged(pass_stats)
       /\ (pc = "walk" /\ pc' = "done") =>
              (~PassChanged(pass_stats) \/ total_passes' > PassCeiling)
       /\ (~dry_run /\ pc = "walk" /\ PassChanged(pass_stats')
              /\ ~PassChanged(pass_stats)) => files' # files]_vars

\* A run of several passes has ended on a pass in which a call failed and
\* nothing was renamed or updated.
C21_Witness ==
    /\ pc = "done"
    /\ total_passes >= 2
    /\ total_passes <= PassCeiling
    /\ pass_stats.errors >= 1
    /\ ~PassChanged(pass_stats)

\* C28: at the end of a run of the fixer, unique_files and file_actions hold
\* one entry for each music file of the directory, and the rename of an
\* entry goes from the name the file had when the run started to the name it
\* has at the end.
C28_OneEntryPerFile ==
    (pc = "done" /\ script = "fixer" /\ ~albums_only) =>
        /\ Cardinality(unique_files) = Cardinality(Walk(script, origin))
        /\ Cardinality(DOMAIN file_actions) = Cardinality(Walk(script, origin))
        /\ \A key \in DOMAIN file_actions :
              file_actions[key].rename # <<>> =>
                  \E i \in DOMAIN origin :
                      /\ file_actions[key].rename[1] = origin[i].name
                      /\ file_actions[key].rename[2] = FinalName(i)

(***************************************************************************)
(* The grouping pass: process_directory_for_albums of the fixer and        *)
(* process_directory of the mapper.  A path is the sequence of the         *)
(* directory names from the parent of directory_path down; a file is at    *)
(* dir / name.                                                             *)
(***************************************************************************)
\* if len(files) <= 3: the groups that stay where they are.
GroupThreshold == 3

\* max_depth of MusicMetadataFixer.__init__.
max_depth == 10

Devotional == <<"d", "e", "v", "o", "t", "i", "o", "n", "a", "l">>

\* any(part.lower() == 'devotional' for part in file_path.parts)
IsDevotional(p) ==
    \/ \E k \in DOMAIN p.dir : LowerText(p.dir[k]) = Devotional
    \/ LowerText(p.name) = Devotional

\* path.parent
Parent(path) == SubSeq(path, 1, Len(path) - 1)

\* There is a file at p.
Present(fs, p) == p.name \in FileNames(fs, p.dir)

\* extract_metadata(file_path): the album and year tags, 'Unknown Album' and
\* '' when the tag is missing or the file cannot be read.
extract_metadata(fs, p) ==
    IF FaultOf(fs, p.dir, p.name) = "read"
    THEN [album |-> UnknownAlbum, year |-> <<>>]
    ELSE IF Present(fs, p) /\ fs[FileNamed(fs, p.dir, p.name)].album # <<>>
    THEN [album |-> fs[FileNamed(fs, p.dir, p.name)].album,
          year |-> fs[FileNamed(fs, p.dir, p.name)].year]
    ELSE IF Present(fs, p)
    THEN [album |-> UnknownAlbum, year |-> fs[FileNamed(fs, p.dir, p.name)].year]
    ELSE [album |-> UnknownAlbum, year |-> <<>>]

\* album_folder_name of the file with the tags m.
FolderNameOf(ver, m) ==
    create_album_folder_name(ver, clean_album_name(m.album), extract_year(m.year))

\* album_key of the file with the tags m.
KeyOf(ver, m) == album_key(ver, clean_album_name(m.album), extract_year(m.year))

\* The music files of the directory dir itself.
MusicIn(fs, dir) ==
    {[dir |-> dir, name |-> n] : n \in {x \in FileNames(fs, dir) : is_music_file(x)}}

\* The directory d is listed by walk_recursive from root: it is at most
\* max_depth below it, through directories whose names do not start with '.'.
Reached(root, d) ==
    /\ Len(d) >= Len(root)
    /\ SubSeq(d, 1, Len(root)) = root
    /\ Len(d) - Len(root) <= max_depth
    /\ \A k \in (Len(root) + 1)..Len(d) : d[k] = <<>> \/ d[k][1] # "."

\* walk_with_depth_limit(directory_path, self.max_depth)
walk_with_depth_limit(fs, ds, root) ==
    UNION {MusicIn(fs, d) : d \in {x \in ds : Reached(root, x)}}

\* The dict of the groups: the paths, by the key of each.
Grouped(ver, fs, paths) ==
    [key \in {KeyOf(ver, extract_metadata(fs, p)) : p \in paths} |->
        {p \in paths : KeyOf(ver, extract_metadata(fs, p)) = key}]

\* album_folder: beside the source directory in the mapper, in it in the fixer.
AlbumFolder(ver, source, album_folder_name) ==
    IF ver = "mapper" THEN Append(Parent(source), album_folder_name)
    ELSE Append(source, album_folder_name)

\* shutil.move(str(file_path), str(dest_file)) without the test of dry_run.
MovedAnyway(dry, fs, p, album_folder, dest) ==
    IF ~Present(fs, p) \/ FaultOf(fs, p.dir, p.name) = "rename"
    THEN [success |-> FALSE, files |-> fs]
    ELSE [success |-> TRUE,
          files |-> [fs EXCEPT ![FileNamed(fs, p.dir, p.name)] =
                        [@ EXCEPT !.dir = album_folder, !.name = dest]]]

\* shutil.move(file_path, dest_file) unless dry_run; it raises when there is no
\* file at file_path.
Moved(dry, fs, p, album_folder, dest) ==
    IF dry THEN [success |-> TRUE, files |-> fs]
    ELSE IF ~Present(fs, p) \/ FaultOf(fs, p.dir, p.name) = "rename"
    THEN [success |-> FALSE, files |-> fs]
    ELSE [success |-> TRUE,
          files |-> [fs EXCEPT ![FileNamed(fs, p.dir, p.name)] =
                        [@ EXCEPT !.dir = album_folder, !.name = dest]]]

\* process_album_file when a call raised before the move: return False,
\* error_msg, or the exception escapes (raised).
Unplaced(fs, ds, album_folder, raised) ==
    [music |-> TRUE, folder |-> album_folder, wanted |-> FALSE,
     created |-> FALSE, dirs |-> ds, moved |-> [success |-> FALSE, files |-> fs],
     raised |-> raised]

\* process_album_file from album_folder on: the folder is made when it does not
\* exist, the name is settled against the folder and the file moved.  An
\* exception of album_folder.mkdir is caught and reported.
Placed(dry, fs, ds, p, album_folder) ==
    IF album_folder \notin ds /\ ~dry /\ FaultOf(fs, p.dir, p.name) = "mkdir"
    THEN Unplaced(fs, ds, album_folder, FALSE)
    ELSE [music |-> TRUE,
          folder |-> album_folder,
          wanted |-> album_folder \notin ds,
          created |-> album_folder \notin ds /\ ~dry,
          dirs |-> IF dry THEN ds ELSE ds \cup {album_folder},
          moved |-> Moved(dry, fs, p, album_folder,
                          resolve(FileNames(fs, album_folder), p.name,
                                  album_folder = p.dir).name),
          raised |-> FALSE]

\* MusicMetadataFixer.process_album_file(file_path, source_directory) and
\* AlbumMapper.process_file(file_path, source_directory).
\* An exception of album_folder.exists() reaches the outer except: the mapper
\* returns False; the fixer appends to self.error_details, which
\* MusicRenamer.__init__ of the fixer does not define, and the AttributeError
\* leaves process_album_file.
process_album_file(ver, dry, fs, ds, source, p) ==
    IF ~is_music_file(p.name)
    THEN [music |-> FALSE, folder |-> <<>>, wanted |-> FALSE, created |-> FALSE,
          dirs |-> ds, moved |-> [success |-> FALSE, files |-> fs],
          raised |-> FALSE]
    ELSE IF FaultOf(fs, p.dir, p.name) = "probe"
    THEN Unplaced(fs, ds,
                  AlbumFolder(ver, source,
                              FolderNameOf(ver, extract_metadata(fs, p))),
                  ver = "fixer")
    ELSE Placed(dry, fs, ds, p,
                AlbumFolder(ver, source, FolderNameOf(ver, extract_metadata(fs, p))))

\* self.created_albums after the call returned r: the mapper appends the path
\* whenever the folder did not exist, the fixer the name of a folder it made,
\* once.
Announced(ver, ca, r) ==
    IF ver = "mapper"
    THEN IF r.wanted THEN Append(ca, r.folder) ELSE ca
    ELSE IF r.created /\ \A k \in DOMAIN ca : ca[k] # r.folder[Len(r.folder)]
    THEN Append(ca, r.folder[Len(r.folder)])
    ELSE ca

ZeroAlbumStats ==
    [processed |-> 0, renamed |-> 0, metadata_updated |-> 0, moved |-> 0,
     skipped |-> 0, errors |-> 0, albums_created |-> 0]

\* The most music files of the tree.
MaxTracks == 5

DevotionalDir == Append(RootDir, <<"D", "e", "v", "o", "t", "i", "o", "n", "a", "l">>)

SubDir == Append(RootDir, <<"S", "u", "b">>)

\* The album and year tags of the files.
AlbumTags ==
    <<[album |-> <<"1", "9", "9", "9", " ", "T", "o", "u", "r">>,
       year |-> <<"1", "9", "9", "9">>],
      [album |-> <<"L", "i", "v", "e">>, year |-> <<>>]>>

\* Where a file can be, and with which tags.
Places ==
    <<[dir |-> RootDir, tags |-> 1], [dir |-> RootDir, tags |-> 2],
      [dir |-> DevotionalDir, tags |-> 1], [dir |-> DevotionalDir, tags |-> 2],
      [dir |-> SubDir, tags |-> 1], [dir |-> SubDir, tags |-> 2]>>

\* The name of the k-th file of a directory.
TrackName(k) ==
    IF k = 1 THEN <<"0", "1", " ", "a">> \o DotMp3 ELSE <<LowerSeq[k]>> \o DotMp3

\* The tree whose i-th file is at Places[place[i]].
TreeOf(place) ==
    [i \in DOMAIN place |->
        [dir |-> Places[place[i]].dir,
         name |-> TrackName(Cardinality({j \in 1..i :
                      Places[place[j]].dir = Places[place[i]].dir})),
         title |-> <<"a">>, artist |-> <<"b">>,
         album |-> AlbumTags[Places[place[i]].tags].album,
         year |-> AlbumTags[Places[place[i]].tags].year,
         fault |-> "none"]]

\* The trees of up to MaxTracks files, the files of a place next to each other.
Trees ==
    UNION {{TreeOf(place) :
               place \in {f \in [1..n -> DOMAIN Places] :
                             \A i \in 1..(n - 1) : f[i] <= f[i + 1]}} :
           n \in 1..MaxTracks}

InitAlbums ==
    /\ script \in Organizers
    /\ dry_run \in BOOLEAN
    /\ metadata_only = FALSE
    /\ filename_only = FALSE
    /\ albums_only = TRUE
    /\ run = 1
    /\ files \in Trees
    /\ origin = files
    /\ dirs = {RootDir, DevotionalDir, SubDir}
    /\ pc = "start"
    /\ stats = ZeroAlbumStats
    /\ source_directory = <<>>
    /\ albums = <<>>
    /\ devotional_files = {}
    /\ group = NoGroup
    /\ visited = {}
    /\ todo = {}
    /\ created_albums = <<>>
    /\ handled = {}
    /\ deleted_count = 0
    /\ pending = {}
    /\ virtual_files = <<>>
    /\ total_passes = 0
    /\ total_changes = 0
    /\ changes_in_pass = 0
    /\ pass_stats = ZeroStats
    /\ filename_changes = <<>>
    /\ error_details = <<>>
    /\ unique_files = {}
    /\ file_actions = <<>>
    /\ NoText
    /\ NoAlbum
    /\ NoResolve

\* What no step of the grouping pass changes.
albumsIdle ==
    <<script, arg, rets, keyVars, resolveVars, flagVars, pending, virtual_files,
      total_passes, total_changes, changes_in_pass, pass_stats,
      filename_changes, error_details, deleted_count>>

\* The head of process_directory_for_albums: the music files of the tree are
\* listed, the devotional ones set apart and the others grouped by album_key.
\* The head of the mapper's process_directory: process_music_directory groups
\* the music files of directory_path itself.
BeginAlbums ==
    /\ albums_only
    /\ pc = "start"
    /\ source_directory' = RootDir
    /\ IF script = "fixer"
       THEN /\ devotional_files' =
                  {p \in walk_with_depth_limit(files, dirs, RootDir) : IsDevotional(p)}
            /\ albums' = Grouped(script, files,
                  {p \in walk_with_depth_limit(files, dirs, RootDir) : ~IsDevotional(p)})
            /\ pc' = "albums"
       ELSE /\ devotional_files' = {}
            /\ albums' = Grouped(script, files, MusicIn(files, RootDir))
            /\ pc' = "root"
    /\ UNCHANGED <<files, dirs, stats, group, visited, todo, created_albums,
                   handled, replaced_urls, unique_files, file_actions,
                   albumsIdle>>

\* The body of the loop over devotional_files for the path p, r being what
\* process_file returned: the result is not looked at.
DevotionalCleaned(p, r) ==
    /\ devotional_files' = devotional_files \ {p}
    /\ stats' = [stats EXCEPT !.processed = @ + 1]
    /\ files' = r.files
    /\ replaced_urls' = replaced_urls \cup r.urls
    /\ unique_files' = unique_files \cup {p}
    /\ file_actions' =
          Put(file_actions, p,
              ActedOn(IF p \in DOMAIN file_actions THEN file_actions[p]
                      ELSE NoAction, p.name, r))
    /\ UNCHANGED <<pc, dirs, source_directory, albums, group, visited, todo,
                   created_albums, handled, albumsIdle>>

\* for file_path in devotional_files: self.process_file(file_path)
CleanDevotional ==
    /\ pc = "albums"
    /\ \E p \in devotional_files :
          DevotionalCleaned(p,
              process_file(script, dry_run, metadata_only, filename_only,
                           files, p.dir, p.name))

\* A group loop can run: the devotional files are done.
InGroups == pc \in {"root", "albums"} /\ devotional_files = {}

\* if len(files) < 3
LeftInPlaceBelow(n) == n < GroupThreshold

\* if len(files) <= 3
LeftInPlace(n) == n <= GroupThreshold

\* What the loops log of the files of a group.
Logged(paths, key, how) ==
    {[path |-> p, source |-> source_directory, key |-> key,
      size |-> Cardinality(albums[key]), how |-> how] : p \in paths}

\* A group of at most three files: each is counted as processed and skipped.
SkipGroup ==
    /\ InGroups
    /\ group = NoGroup
    /\ \E key \in DOMAIN albums :
          /\ albums[key] \cap visited = {}
          /\ LeftInPlace(Cardinality(albums[key]))
          /\ visited' = visited \cup albums[key]
          /\ stats' = [stats EXCEPT
                          !.processed = @ + Cardinality(albums[key]),
                          !.skipped = @ + Cardinality(albums[key])]
          /\ handled' = handled \cup Logged(albums[key], key, "skipped")
    /\ UNCHANGED <<pc, files, dirs, source_directory, albums, devotional_files,
                   group, todo, created_albums, replaced_urls, unique_files,
                   file_actions, albumsIdle>>

\* The body of the loop over a larger group for the path p, r being what
\* process_album_file returned.
Tallied(key, p, r) ==
    /\ files' = r.moved.files
    /\ dirs' = r.dirs
    /\ created_albums' = Announced(script, created_albums, r)
    /\ stats' = [stats EXCEPT
                    !.processed = @ + 1,
                    !.moved = @ + (IF r.moved.success THEN 1 ELSE 0),
                    !.errors = @ + (IF r.moved.success THEN 0 ELSE 1),
                    !.albums_created = @ + (IF r.created THEN 1 ELSE 0)]
    /\ visited' = visited \cup {p}
    /\ group' = IF albums[key] \subseteq visited \cup {p} THEN NoGroup ELSE key
    /\ handled' = handled \cup Logged({p}, key, "placed")
    /\ UNCHANGED <<pc, source_directory, albums, devotional_files, todo,
                   replaced_urls, unique_files, file_actions, albumsIdle>>

\* The exception that left process_album_file leaves
\* process_directory_for_albums too: main prints 'Unexpected error' and calls
\* sys.exit(1).  The file had been counted as processed.
Escaped ==
    /\ pc' = "aborted"
    /\ stats' = [stats EXCEPT !.processed = @ + 1]
    /\ UNCHANGED <<files, dirs, created_albums, visited, group, handled,
                   source_directory, albums, devotional_files, todo,
                   replaced_urls, unique_files, file_actions, albumsIdle>>

\* The body of the loop over a larger group for the path p, r being what
\* process_album_file did.
Submitted(key, p, r) == IF r.raised THEN Escaped ELSE Tallied(key, p, r)

\* One turn of the loop over a group of more than three files: the next file
\* of the group, or the first of the next such group.
PlaceFile ==
    /\ InGroups
    /\ \E key \in DOMAIN albums :
          /\ \/ group = key
             \/ /\ group = NoGroup
                /\ albums[key] \cap visited = {}
                /\ ~LeftInPlace(Cardinality(albums[key]))
          /\ \E p \in albums[key] \ visited :
                Submitted(key, p,
                    process_album_file(script, dry_run, files, dirs,
                                       source_directory, p))

\* Every loop of the grouping pass is over.
LoopsOver ==
    /\ InGroups
    /\ group = NoGroup
    /\ \A key \in DOMAIN albums : albums[key] \subseteq visited

\* for item in directory_path.iterdir() of the mapper's process_directory:
\* the subdirectories are listed once process_music_directory(directory_path)
\* has returned.
ListSubdirectories ==
    /\ script = "mapper"
    /\ pc = "root"
    /\ LoopsOver
    /\ todo' = {d \in dirs : /\ Len(d) = Len(RootDir) + 1
                             /\ Parent(d) = RootDir
                             /\ (d[Len(d)] = <<>> \/ d[Len(d)][1] # ".")}
    /\ pc' = "listed"
    /\ UNCHANGED <<files, dirs, stats, source_directory, albums,
                   devotional_files, group, visited, created_albums, handled,
                   replaced_urls, unique_files, file_actions, albumsIdle>>

\* self.process_music_directory(item): the music files of the next listed
\* subdirectory are grouped.
NextDirectory ==
    /\ script = "mapper"
    /\ pc = "listed" \/ (pc = "albums" /\ LoopsOver)
    /\ \E d \in todo :
          /\ todo' = todo \ {d}
          /\ source_directory' = d
          /\ albums' = Grouped(script, files, MusicIn(files, d))
    /\ visited' = {}
    /\ pc' = "albums"
    /\ UNCHANGED <<files, dirs, stats, devotional_files, group, created_albums,
                   handled, replaced_urls, unique_files, file_actions,
                   albumsIdle>>

\* The grouping pass returns.
EndAlbums ==
    /\ \/ script = "fixer" /\ LoopsOver
       \/ script = "mapper" /\ todo = {}
                            /\ (pc = "listed" \/ (pc = "albums" /\ LoopsOver))
    /\ pc' = "done"
    /\ UNCHANGED <<files, dirs, stats, source_directory, albums,
                   devotional_files, group, visited, todo, created_albums,
                   handled, replaced_urls, unique_files, file_actions,
                   albumsIdle>>

NextAlbums ==
    \/ BeginAlbums
    \/ CleanDevotional
    \/ SkipGroup
    \/ PlaceFile
    \/ ListSubdirectories
    \/ NextDirectory
    \/ EndAlbums

SpecAlbums == InitAlbums /\ [][NextAlbums]_vars

\* The files the loops have been through with that outcome.
HandledAs(how) == {h \in handled : h.how = how}

\* C8: in a grouping pass every file of a group of 3 or fewer stays at its path
\* and is counted as skipped, never as an error, and every file of a larger
\* group is submitted for placement: the sizes logged are those of the groups,
\* and when the pass is over every grouped file has been through one of the two.
C8_SmallGroupsSkipped ==
    /\ \A h \in handled :
          /\ h.size <= 3 <=> h.how = "skipped"
          /\ h.how = "skipped" => Present(files, h.path)
    /\ stats.skipped = Cardinality(HandledAs("skipped"))
    /\ stats.moved + stats.errors = Cardinality(HandledAs("placed"))
    /\ pc = "done" =>
          /\ \A h \in handled :
                h.size = Cardinality({g \in handled :
                             g.source = h.source /\ g.key = h.key})
          /\ Cardinality(handled) =
                Cardinality({i \in DOMAIN files :
                    script = "mapper"
                        \/ ~IsDevotional([dir |-> files[i].dir,
                                          name |-> files[i].name])})

\* A pass that is over, in which a group of four was moved to its folder and a
\* group of one left where it was.
C8_Witness ==
    /\ pc = "done"
    /\ ~dry_run
    /\ \E h \in handled : h.how = "placed" /\ h.size = 4 /\ ~Present(files, h.path)
    /\ \E h \in handled : h.how = "skipped" /\ h.size = 1
    /\ stats.moved = 4
    /\ stats.skipped = 1

\* C9: a file with a path component equal to 'devotional', whatever the case,
\* is never moved to another directory by a grouping pass.
C9_DevotionalStays ==
    [][\A i \in DOMAIN files :
          IsDevotional([dir |-> files[i].dir, name |-> files[i].name])
              => files'[i].dir = files[i].dir]_vars

\* The path of file i.
PathOf(fs, i) == [dir |-> fs[i].dir, name |-> fs[i].name]

\* The last name of the directory of file i.
ContainerName(fs, i) == fs[i].dir[Len(fs[i].dir)]

\* C22: a file the grouping pass moves goes to a folder whose name is the
\* album_key its group was formed under.
C22_FolderNamedByKey ==
    [][albums_only =>
          \A i \in DOMAIN files :
              files'[i].dir # files[i].dir =>
                  \E key \in DOMAIN albums :
                      /\ PathOf(files, i) \in albums[key]
                      /\ ContainerName(files', i) = key]_vars

\* C25: created_albums, the record of the folders created or in dry_run to be
\* created, names no folder twice, and no folder is counted as created twice.
C25_FolderRecordedOnce ==
    /\ \A i, j \in DOMAIN created_albums :
          created_albums[i] = created_albums[j] => i = j
    /\ albums_only => stats.albums_created <= Len(created_albums)

\* C27: when the grouping pass has returned, every file counted as processed
\* is counted as moved, as skipped or as an error.
C27_ProcessedAccountedFor ==
    (albums_only /\ pc = "done") =>
        stats.processed = stats.moved + stats.skipped + stats.errors

(***************************************************************************)
(* delete_empty_folders of the fixer, which main calls on directory_path   *)
(* once the tree has been processed.                                       *)
(***************************************************************************)
\* The directories right below cur.
Subdirectories(ds, cur) ==
    {d \in ds : Len(d) = Len(cur) + 1 /\ Parent(d) = cur}

\* Emptied without the look at the files of the directory.
EmptiedAnyway(ds, fs, dry, cur, res) ==
    IF /\ \A k \in DOMAIN res : res[k].empty
       /\ \A k \in DOMAIN res : ~dry /\ k \in res[k].deleted
    THEN [empty |-> TRUE,
          deleted |-> UNION {res[k].deleted : k \in DOMAIN res} \cup {cur}]
    ELSE [empty |-> FALSE, deleted |-> UNION {res[k].deleted : k \in DOMAIN res}]

\* delete_empty_recursive(current_path) once the loop over its items is done,
\* res being what the calls on its subdirectories returned: the directory goes
\* when every call returned True, it holds no file and nothing is left in it
\* (in dry_run nothing was removed from it).
Emptied(ds, fs, dry, cur, res) ==
    IF /\ \A k \in DOMAIN res : res[k].empty
       /\ FileNames(fs, cur) = {}
       /\ \A k \in DOMAIN res : ~dry /\ k \in res[k].deleted
    THEN [empty |-> TRUE,
          deleted |-> UNION {res[k].deleted : k \in DOMAIN res} \cup {cur}]
    ELSE [empty |-> FALSE, deleted |-> UNION {res[k].deleted : k \in DOMAIN res}]

RECURSIVE delete_empty_any(_, _, _, _)
\* delete_empty_recursive without the test for the devotional name.
delete_empty_any(ds, fs, dry, cur) ==
    IF cur \notin ds THEN [empty |-> FALSE, deleted |-> {}]
    ELSE Emptied(ds, fs, dry, cur,
                 [k \in Subdirectories(ds, cur) |-> delete_empty_any(ds, fs, dry, k)])

RECURSIVE delete_empty_recursive(_, _, _, _)
\* delete_empty_recursive(current_path): what it returns, and the directories
\* it deleted, or in dry_run would delete, and counted.
delete_empty_recursive(ds, fs, dry, cur) ==
    IF cur \notin ds THEN [empty |-> FALSE, deleted |-> {}]
    ELSE IF LowerText(cur[Len(cur)]) = Devotional
    THEN [empty |-> TRUE, deleted |-> {}]
    ELSE Emptied(ds, fs, dry, cur,
                 [k \in Subdirectories(ds, cur) |->
                     delete_empty_recursive(ds, fs, dry, k)])

\* The most files of the tree.
MaxLoose == 2

OldDir == Append(SubDir, <<"O", "l", "d">>)

SubDevotionalDir ==
    Append(SubDir, <<"D", "E", "V", "O", "T", "I", "O", "N", "A", "L">>)

InDevotionalDir == Append(DevotionalDir, <<"I", "n">>)

LiveDir == Append(RootDir, <<"L", "i", "v", "e">>)

\* The directories a tree is made of.
FolderPool ==
    <<RootDir, SubDir, OldDir, SubDevotionalDir, DevotionalDir, InDevotionalDir,
      LiveDir>>

\* The trees of directories: directory_path, and with each other directory the
\* one it is in.
DirectoryTrees ==
    {ds \in SUBSET {FolderPool[k] : k \in DOMAIN FolderPool} :
        /\ RootDir \in ds
        /\ \A d \in ds : d = RootDir \/ Parent(d) \in ds}

\* A file of the directory dir.
LooseFile(dir) ==
    [dir |-> dir, name |-> <<"a">> \o DotMp3, title |-> <<"a">>,
     artist |-> <<"b">>, album |-> <<>>, year |-> <<>>, fault |-> "none"]

\* The names of the files: a music file and a file that is none.
LooseNames ==
    {<<"a">> \o DotMp3, <<"n", "o", "t", "e", "s", ".", "t", "x", "t">>}

\* The files of the tree ds: up to MaxLoose, each in a directory of its own.
LooseFiles(ds) ==
    UNION {{[i \in 1..n |-> [LooseFile(FolderPool[pick[i]]) EXCEPT
                                !.name = name[i]]] :
               pick \in {f \in [1..n -> DOMAIN FolderPool] :
                            /\ \A i \in 1..n : FolderPool[f[i]] \in ds
                            /\ \A i \in 1..(n - 1) : f[i] < f[i + 1]},
               name \in [1..n -> LooseNames]} :
           n \in 0..MaxLoose}

InitCleanup ==
    /\ script = "fixer"
    /\ dry_run \in BOOLEAN
    /\ metadata_only = FALSE
    /\ filename_only = FALSE
    /\ albums_only \in BOOLEAN
    /\ run = 1
    /\ dirs \in DirectoryTrees
    /\ files \in LooseFiles(dirs)
    /\ origin = files
    /\ pc = "done"
    /\ stats = ZeroAlbumStats
    /\ source_directory = RootDir
    /\ albums = <<>>
    /\ devotional_files = {}
    /\ group = NoGroup
    /\ visited = {}
    /\ todo = {}
    /\ created_albums = <<>>
    /\ handled = {}
    /\ deleted_count = 0
    /\ pending = {}
    /\ virtual_files = <<>>
    /\ total_passes = 0
    /\ total_changes = 0
    /\ changes_in_pass = 0
    /\ pass_stats = ZeroStats
    /\ filename_changes = <<>>
    /\ error_details = <<>>
    /\ unique_files = {}
    /\ file_actions = <<>>
    /\ NoText
    /\ NoAlbum
    /\ NoResolve

\* delete_empty_folders after delete_empty_recursive(directory_path) returned
\* r: current_path.rmdir() was called unless dry_run, deleted_count counts.
Swept(r) ==
    /\ dirs' = IF dry_run THEN dirs ELSE dirs \ r.deleted
    /\ deleted_count' = Cardinality(r.deleted)
    /\ pc' = "cleaned"
    /\ UNCHANGED <<textVars, keyVars, resolveVars, flagVars, files, pending,
                   virtual_files, total_passes, total_changes, changes_in_pass,
                   pass_stats, stats, ledgerVars, source_directory, albums,
                   devotional_files, group, visited, todo, created_albums,
                   handled>>

\* deleted = renamer.delete_empty_folders(directory_path)
DeleteEmptyFolders ==
    /\ script = "fixer"
    /\ pc = "done"
    /\ Swept(delete_empty_recursive(dirs, files, dry_run, RootDir))

NextCleanup == DeleteEmptyFolders

SpecCleanup == InitCleanup /\ [][NextCleanup]_vars

\* C10: delete_empty_folders never deletes a directory named 'devotional',
\* whatever the case and also when it is empty, nor any directory that one is
\* in.
C10_DevotionalKept ==
    [][\A d \in dirs :
          LowerText(d[Len(d)]) = Devotional
              => \A k \in 1..Len(d) : SubSeq(d, 1, k) \in dirs']_vars

\* Empty folders were deleted, and of the tree only the empty devotional
\* folder and the directories it is in are left.
C10_Witness ==
    /\ pc = "cleaned"
    /\ ~dry_run
    /\ files = <<>>
    /\ deleted_count = 2
    /\ dirs = {RootDir, SubDir, SubDevotionalDir}

\* The directory e is d or is below it.
Under(d, e) == Len(e) >= Len(d) /\ SubSeq(e, 1, Len(d)) = d

\* The directory is named 'devotional', whatever the case.
DevotionalNamed(d) == LowerText(d[Len(d)]) = Devotional

\* Nothing keeps the directory d of the tree: no file is in it or below it,
\* and neither it nor a directory below it is named 'devotional'.
Hollow(ds, fs, d) ==
    /\ \A i \in DOMAIN fs : ~Under(d, fs[i].dir)
    /\ \A e \in ds : Under(d, e) => ~DevotionalNamed(e)

\* C23: once delete_empty_folders has returned, without dry_run, the tree has
\* no directory left with no file and only empty directories in it, the
\* directories named 'devotional' and those that hold one apart.
C23_NoEmptyFolderLeft ==
    (pc = "cleaned" /\ ~dry_run) => \A d \in dirs : ~Hollow(dirs, files, d)

\* No file, music or not, is in the directory d or below it.
NoFileUnder(fs, d) == \A i \in DOMAIN fs : ~Under(d, fs[i].dir)

\* C29: delete_empty_folders deletes no directory, and in its count has no
\* directory, with a file of any kind in it or below it.
C29_NoFolderWithFileDeleted ==
    [][/\ \A d \in dirs \ dirs' : NoFileUnder(files, d)
       /\ (pc = "done" /\ pc' = "cleaned") =>
              /\ \A d \in delete_empty_recursive(dirs, files, dry_run,
                                                 RootDir).deleted :
                    NoFileUnder(files, d)
              /\ deleted_count' =
                    Cardinality(delete_empty_recursive(dirs, files, dry_run,
                                                       RootDir).deleted)]_vars

\* Folders were deleted, and a folder is left for the file that is not a
\* music file in it, its empty subfolder gone.
C29_Witness ==
    /\ pc = "cleaned"
    /\ ~dry_run
    /\ deleted_count >= 2
    /\ OldDir \notin dirs
    /\ SubDir \in dirs
    /\ \E i \in DOMAIN files :
          files[i].dir = SubDir /\ ~is_music_file(files[i].name)

\* C30: with dry_run, delete_empty_folders returns the number of directories
\* it deletes from the same tree without dry_run.
C30_DryRunCountsTheSame ==
    (pc = "cleaned" /\ dry_run) =>
        deleted_count =
            Cardinality(delete_empty_recursive(dirs, files, FALSE, RootDir).deleted)

(***************************************************************************)
(* A whole run, as main starts it: the passes of process_directory, or the *)
(* grouping pass (the mapper's only work, the fixer's with albums_only),   *)
(* and then, in the fixer, delete_empty_folders.  One file at most has an  *)
(* input/output call that raises.                                          *)
(***************************************************************************)
\* The calls that may raise for a file.
Faults == {"read", "save", "rename", "probe", "mkdir"}

\* The files fs, and fs with such a call for one of them.
WithFault(fs) ==
    {fs} \cup {[fs EXCEPT ![i].fault = f] : i \in DOMAIN fs, f \in Faults}

\* The most files of a tree of albums with such a file.
MaxFaultyTracks == 4

\* The trees of albums: all of them, and the smaller ones with such a file.
FaultyTrees ==
    Trees \cup UNION {WithFault(fs) :
                         fs \in {t \in Trees : Len(t) <= MaxFaultyTracks}}

\* The flags main accepts, and the tree it is started on: a directory of files
\* with an empty subdirectory for the passes, a tree of albums for the
\* grouping.
InitRun ==
    /\ dry_run \in BOOLEAN
    /\ run = 1
    /\ \/ /\ script \in Versions
          /\ albums_only = FALSE
          /\ metadata_only \in BOOLEAN
          /\ filename_only \in BOOLEAN
          /\ ~(metadata_only /\ filename_only)
          /\ files \in UNION {WithFault(fs) : fs \in Directories}
          /\ dirs = {RootDir, SubDir}
          /\ stats = ZeroStats
       \/ /\ script \in Organizers
          /\ albums_only = TRUE
          /\ metadata_only = FALSE
          /\ filename_only = FALSE
          /\ files \in FaultyTrees
          /\ dirs = {RootDir, DevotionalDir, SubDir}
          /\ stats = ZeroAlbumStats
    /\ origin = files
    /\ pc = "start"
    /\ source_directory = <<>>
    /\ albums = <<>>
    /\ devotional_files = {}
    /\ group = NoGroup
    /\ visited = {}
    /\ todo = {}
    /\ created_albums = <<>>
    /\ handled = {}
    /\ deleted_count = 0
    /\ pending = {}
    /\ virtual_files = <<>>
    /\ total_passes = 0
    /\ total_changes = 0
    /\ changes_in_pass = 0
    /\ pass_stats = ZeroStats
    /\ filename_changes = <<>>
    /\ error_details = <<>>
    /\ unique_files = {}
    /\ file_actions = <<>>
    /\ NoText
    /\ NoAlbum
    /\ NoResolve

NextRun == NextSched \/ NextAlbums \/ NextCleanup

SpecRun == InitRun /\ [][NextRun]_vars

\* The pass is at a file that is to be renamed and whose changed tags cannot be
\* saved.
RenameAndFailedSave(path) ==
    /\ ~dry_run /\ ~metadata_only /\ ~filename_only
    /\ is_music_file(path)
    /\ FaultOf(files, RootDir, path) = "save"
    /\ clean_filename(script, path).name # path
    /\ clean_id3_tags(script, files[FileNamed(files, RootDir, path)]).changed

\* The name clean_filename gives the file, settled against the directory.
CleanedName(path) ==
    resolve(FileNames(files, RootDir), clean_filename(script, path).name,
            FALSE).name

\* C12: when a pass renames a file and the save of its tags fails, the file is
\* in the directory under its cleaned name after the step, with the tags it
\* had, and the pass has counted it as renamed.
C12_RenameSurvivesFailedSave ==
    [][\A path \in pending \ pending' :
          RenameAndFailedSave(path) =>
              /\ CleanedName(path) \in FileNames(files', RootDir)
              /\ path \notin FileNames(files', RootDir)
              /\ FaultOf(files', RootDir, CleanedName(path)) = "save"
              /\ pass_stats'.renamed = pass_stats.renamed + 1
              /\ pass_stats'.errors = pass_stats.errors]_vars

\* A pass has renamed '01 a.mp3', whose title '01 a' could not be saved.
C12_Witness ==
    /\ ~dry_run
    /\ pc = "walk"
    /\ total_passes = 0
    /\ pass_stats.renamed = 1
    /\ pass_stats.metadata_updated = 0
    /\ Len(files) = 1
    /\ files[1].fault = "save"
    /\ files[1].name = <<"a">> \o DotMp3
    /\ files[1].title = <<"0", "1", " ", "a">>

\* C14: with dry_run no step of a run, be it of a pass, of the grouping or of
\* delete_empty_folders, renames or moves a file, writes a tag, or makes or
\* removes a directory.
C14_DryRunChangesNothing ==
    [][dry_run => files' = files /\ dirs' = dirs]_vars

\* A dry run of the fixer that went through a devotional file to rename, a
\* group to move and an empty directory to delete.
C14_Witness ==
    /\ dry_run
    /\ albums_only
    /\ pc = "cleaned"
    /\ deleted_count >= 1
    /\ stats.moved >= 4
    /\ \E key \in DOMAIN file_actions : file_actions[key].rename # <<>>

\* A call made for the file raised while process_file was at it.
Troubled(r) ==
    r.music /\ (~r.success \/ r.filename_error \/ r.metadata_error)

\* The errors file_actions (fa) holds for the key.
ErrorsIn(fa, key) == IF key \in DOMAIN fa THEN fa[key].errors ELSE 0

\* C11, for a file of a pass of process_directory: a call that raises is
\* recorded as an error of the file, in error_details (renamer) or in the
\* file's entry of file_actions (fixer).
PassErrorRecorded(path) ==
    Troubled(ResultFor(path)) =>
        IF script = "renamer"
        THEN Len(error_details') = Len(error_details) + 1
        ELSE ErrorsIn(file_actions', [dir |-> RootDir, name |-> PathName(path)])
                 > ErrorsIn(file_actions, [dir |-> RootDir, name |-> PathName(path)])

\* C11, for a file the grouping pass placed: when process_album_file did not
\* move it, the pass counted an error.
PlaceErrorRecorded(p) ==
    ~process_album_file(script, dry_run, files, dirs, source_directory,
                        p).moved.success
        => stats'.errors = stats.errors + 1

\* C11: a call that raises for one file is caught at that file and recorded as
\* an error of it; no exception leaves the pass, which goes on with the other
\* files, and the run ends as it does without the failure.
C11_FailuresContained ==
    [][/\ pc' # "aborted"
       /\ \A path \in pending \ pending' : PassErrorRecorded(path)
       /\ \A h \in handled' \ handled :
             h.how = "placed" => PlaceErrorRecorded(h.path)]_vars

(***************************************************************************)
(* The grouping pass run twice on a tree, without dry_run: the script is   *)
(* started again on what its first run left.                               *)
(***************************************************************************)
\* The album tag 'Devotional'.
DevotionalAlbum == DevotionalDir[Len(DevotionalDir)]

\* The tree t with 'Devotional' for the album 'Live'.
Retagged(t) ==
    [i \in DOMAIN t |->
        IF t[i].album = AlbumTags[2].album
        THEN [t[i] EXCEPT !.album = DevotionalAlbum] ELSE t[i]]

InitRerun ==
    /\ script \in Organizers
    /\ dry_run = FALSE
    /\ metadata_only = FALSE
    /\ filename_only = FALSE
    /\ albums_only = TRUE
    /\ run = 1
    /\ files \in Trees \cup {Retagged(t) : t \in Trees}
    /\ origin = files
    /\ dirs = {RootDir, DevotionalDir, SubDir}
    /\ pc = "start"
    /\ stats = ZeroAlbumStats
    /\ source_directory = <<>>
    /\ albums = <<>>
    /\ devotional_files = {}
    /\ group = NoGroup
    /\ visited = {}
    /\ todo = {}
    /\ created_albums = <<>>
    /\ handled = {}
    /\ deleted_count = 0
    /\ pending = {}
    /\ virtual_files = <<>>
    /\ total_passes = 0
    /\ total_changes = 0
    /\ changes_in_pass = 0
    /\ pass_stats = ZeroStats
    /\ filename_changes = <<>>
    /\ error_details = <<>>
    /\ unique_files = {}
    /\ file_actions = <<>>
    /\ NoText
    /\ NoAlbum
    /\ NoResolve

\* main is started again on the same directory: a new object, with the files
\* and directories as the first run left them.
Rerun ==
    /\ run = 1
    /\ pc = "done"
    /\ run' = 2
    /\ pc' = "start"
    /\ stats' = ZeroAlbumStats
    /\ source_directory' = <<>>
    /\ albums' = <<>>
    /\ devotional_files' = {}
    /\ group' = NoGroup
    /\ visited' = {}
    /\ todo' = {}
    /\ created_albums' = <<>>
    /\ handled' = {}
    /\ replaced_urls' = {}
    /\ unique_files' = {}
    /\ file_actions' = <<>>
    /\ UNCHANGED <<script, arg, rets, keyVars, resolveVars, dry_run,
                   metadata_only, filename_only, albums_only, origin, files,
                   dirs, pending, virtual_files, total_passes, total_changes,
                   changes_in_pass, pass_stats, filename_changes,
                   error_details, deleted_count>>

NextRerun == NextAlbums \/ Rerun

SpecRerun == InitRerun /\ [][NextRerun]_vars

\* C19: no step of the second run of the grouping pass changes the directory
\* or the name of a file.
C19_SecondRunMovesNothing ==
    [][run = 2 =>
          \A i \in DOMAIN files :
              files'[i].dir = files[i].dir /\ files'[i].name = files[i].name]_vars

(***************************************************************************)
(* The order of the listing: process_directory takes the files of a pass   *)
(* in the order os.walk or iterdir lists them, which is any order.  The    *)
(* run on a directory whose names meet after cleaning is compared with the *)
(* run that takes the files of every pass in one fixed order.              *)
(***************************************************************************)
\* The most files of such a directory.
MaxListed == 3

\* Their names: "a (1).mp3" is the name of the numbered copy of "a.mp3".
ListedPool ==
    <<<<"0", "1", " ", "a">> \o DotMp3, <<"0", "2", " ", "a">> \o DotMp3,
      <<"0", "3", " ", "a", " ", "(", "1", ")">> \o DotMp3, <<"a">> \o DotMp3>>

\* The tags of every file of it.
ListedTags == [title |-> <<"a">>, artist |-> <<"b">>, album |-> <<>>]

ListedPicks(n) ==
    {pick \in [1..n -> DOMAIN ListedPool] :
        \A i \in 1..(n - 1) : pick[i] < pick[i + 1]}

ListedDirectories ==
    UNION {{[i \in 1..n |-> FileOf(ListedPool[pick[i]], ListedTags)] :
               pick \in ListedPicks(n)} :
           n \in 1..MaxListed}

\* main of the renamer or of the fixer, without --dry-run.
InitOrder ==
    /\ script \in Versions
    /\ dry_run = FALSE
    /\ metadata_only \in BOOLEAN
    /\ filename_only \in BOOLEAN
    /\ albums_only = FALSE
    /\ run = 1
    /\ files \in ListedDirectories
    /\ origin = files
    /\ pc = "start"
    /\ pending = {}
    /\ virtual_files = <<>>
    /\ total_passes = 0
    /\ total_changes = 0
    /\ changes_in_pass = 0
    /\ pass_stats = ZeroStats
    /\ stats = ZeroStats
    /\ filename_changes = <<>>
    /\ error_details = <<>>
    /\ unique_files = {}
    /\ file_actions = <<>>
    /\ NoText
    /\ NoAlbum
    /\ NoResolve
    /\ NoAlbums

SpecOrder == InitOrder /\ [][NextSched]_vars

\* The listing of a pass in the order the files stand in fs.
Listing(fs) ==
    SelectSeq([i \in DOMAIN fs |-> fs[i].name],
              LAMBDA name : name \in Walk(script, fs))

RECURSIVE PassInOrder(_, _)
RECURSIVE RunInOrder(_, _)
RECURSIVE PassesInOrder(_, _)

\* The files and the changes of a pass whose first file changed c and whose
\* other files made rest.
Accumulated(c, rest) == [files |-> rest.files, changes |-> rest.changes + c]

\* The for loop over listing, process_file having returned r for its head.
Stepped(r, listing) ==
    Accumulated(Changes(r), PassInOrder(r.files, Tail(listing)))

\* One pass over fs, the files taken in the order of listing.
PassInOrder(fs, listing) ==
    IF listing = <<>> THEN [files |-> fs, changes |-> 0]
    ELSE Stepped(process_file(script, FALSE, metadata_only, filename_only,
                              fs, RootDir, Head(listing)), listing)

\* The end of the pass p, the passes-th: the loop ends or goes on.
Continued(p, passes) ==
    IF p.changes = 0 \/ passes + 1 > PassCeiling THEN p.files
    ELSE RunInOrder(p.files, passes + 1)

\* The files after the passes of process_directory on fs, every pass in the
\* order of Listing.
RunInOrder(fs, passes) == Continued(PassInOrder(fs, Listing(fs)), passes)

\* C20: the names the directory holds after the run, in whatever order the
\* files of each pass were taken, are the names it holds after the run that
\* takes them in the order of Listing.
C20_SameNamesInAnyOrder ==
    pc = "done" =>
        FileNames(files, RootDir) = FileNames(RunInOrder(origin, 0), RootDir)

\* The end of the pass p, the passes-th: the passes the loop makes in all, and
\* the changes of the last one.
Counting(p, passes) ==
    IF p.changes = 0 \/ passes + 1 > PassCeiling
    THEN [passes |-> passes + 1, changes |-> p.changes]
    ELSE PassesInOrder(p.files, passes + 1)

\* total_passes and the last changes_in_pass of process_directory on fs
\* without dry_run, every pass in the order of Listing.
PassesInOrder(fs, passes) == Counting(PassInOrder(fs, Listing(fs)), passes)

MaxTokens == 2

MaxCalls == 2

\* The pieces the input texts are made of.
Tokens ==
    {<<"0", "1">>, <<" ">>, <<"-">>, <<"a">>,
     <<"[", "x", "]", ".", "f", "t">>, <<"f", "t", ".", "[", "y", "]">>,
     <<"[", "z", "]">>, <<"b", ".", "c", "o">>, <<":">>,
     <<"6", "4", "k", "b", "p", "s">>, DotMp3}

RECURSIVE TextsOf(_)
\* The texts made of at most n tokens.
TextsOf(n) ==
    IF n = 0 THEN {<<>>}
    ELSE LET shorter == TextsOf(n - 1)
         IN  shorter \cup {t \o k : t \in shorter, k \in Tokens}

\* '03 - Track Name - coolsite.com [192kbps]': a website between a title and a
\* bitrate in brackets.
TrackSpecimen ==
    <<"0", "3", " ", "-", " ", "T", "r", "a", "c", "k", " ", "N", "a", "m",
      "e", " ", "-", " ", "c", "o", "o", "l", "s", "i", "t", "e", ".", "c",
      "o", "m", " ", "[", "1", "9", "2", "k", "b", "p", "s", "]">>

\* 'a - b.co - a': a website between two words.
MiddleSpecimen ==
    <<"a", " ", "-", " ", "b", ".", "c", "o", " ", "-", " ", "a">>

\* 'a ft.[:] a': a ft.[w+] pattern with a colon in it, between two words.
FeatSpecimen == <<"a", " ", "f", "t", ".", "[", ":", "]", " ", "a">>

\* The input texts: those made of the tokens, and the specimens.
Texts == TextsOf(MaxTokens) \cup {TrackSpecimen, MiddleSpecimen, FeatSpecimen}

InitText ==
    /\ script \in Versions
    /\ replaced_urls = {}
    /\ arg \in Texts
    /\ rets = <<>>
    /\ NoAlbum
    /\ NoResolve
    /\ NoSched

\* The text the next call of fn is made on: the argument, or what the last call
\* of fn returned.
NextInput(fn, first) ==
    IF rets = <<>> THEN first ELSE rets[Len(rets)].name

CanCall(fn) ==
    /\ Len(rets) < MaxCalls
    /\ rets # <<>> => rets[Len(rets)].fn = fn /\ ~rets[Len(rets)].raised

Returned(fn, input, r) ==
    /\ rets' = Append(rets, [fn |-> fn, input |-> input, name |-> r.name,
                             urls |-> r.urls, raised |-> r.raised,
                             emitted |-> r.emitted, restored |-> r.restored])
    /\ replaced_urls' = replaced_urls \cup r.urls
    /\ UNCHANGED <<script, arg, keyVars, resolveVars, schedVars>>

\* self.clean_filename(file_path.name), on a music file.
CallCleanFilename ==
    LET input == NextInput("clean_filename", arg \o DotMp3)
    IN  /\ CanCall("clean_filename")
        /\ is_music_file(input)
        /\ Returned("clean_filename", input, clean_filename(script, input))

\* self.clean_text(tag), as for a title or an artist.
CallCleanText ==
    LET input == NextInput("clean_text", arg)
    IN  /\ CanCall("clean_text")
        /\ Returned("clean_text", input, clean_text(script, input, FALSE))

\* self.clean_text(tag, is_album=True), as the fixer does for an album.
CallCleanTextAlbum ==
    LET input == NextInput("clean_text_album", arg)
    IN  /\ script = "fixer"
        /\ CanCall("clean_text_album")
        /\ Returned("clean_text_album", input, clean_text(script, input, TRUE))

NextText == CallCleanFilename \/ CallCleanText \/ CallCleanTextAlbum

SpecText == InitText /\ [][NextText]_vars

\* The feature-credit tokens of a text: what ft_pattern matches in it.
FtTokens(text) ==
    {PreserveFt(text).preserved[k] : k \in DOMAIN PreserveFt(text).preserved}

\* The base name a call worked on: the file name without its extension, or the
\* tag.
BaseName(call) ==
    IF call.fn = "clean_filename"
    THEN SplitExt(CollapseExtension(script, call.input)).name
    ELSE call.input

\* The letters of a placeholder.
PlaceholderLetters == <<"F", "T", "P", "R", "E", "S", "E", "R", "V", "E">>

\* C1: filename normalization is idempotent: clean_filename applied to what
\* clean_filename returned returns it unchanged and adds no website to
\* replaced_urls.
C1_Idempotent ==
    \A k \in 2..Len(rets) :
        rets[k].fn = "clean_filename" =>
            rets[k].name = rets[k].input /\ rets[k].urls = {}

\* C3: every feature-credit token of the base name, wherever it stands, appears
\* unchanged in what clean_filename and clean_text return.
C3_TokenKept ==
    \A k \in DOMAIN rets :
        \A t \in FtTokens(BaseName(rets[k])) : Contains(rets[k].name, t)

\* C4: what clean_filename and clean_text return holds no fragment of a
\* placeholder, and as many placeholders were restored as were emitted.
C4_PlaceholdersRestored ==
    \A k \in DOMAIN rets :
        ~Contains(rets[k].input, PlaceholderLetters) =>
            /\ ~Contains(rets[k].name, PlaceholderLetters)
            /\ rets[k].restored = rets[k].emitted

\* The name ends in a separator, or holds two dashes with nothing but spaces
\* between them: a separator is left over from a removal.
Dangling(name) ==
    \/ name # <<>> /\ name[Len(name)] \in {"-", "_", " "}
    \/ \E i \in 1..Len(name) : \E j \in (i + 1)..Len(name) :
          /\ name[i] = "-" /\ name[j] = "-"
          /\ \A k \in (i + 1)..(j - 1) : name[k] = " "

\* 'Track Name.mp3' and 'coolsite.com'
TrackCleaned == SubSeq(TrackSpecimen, 6, 15) \o DotMp3

CoolSite == SubSeq(TrackSpecimen, 19, 30)

\* C18: clean_filename takes the websites it adds to replaced_urls out of the
\* name and leaves no separator dangling where they stood;
\* '03 - Track Name - coolsite.com [192kbps].mp3' becomes 'Track Name.mp3',
\* with 'coolsite.com' in replaced_urls.
C18_WebsiteRemovedCleanly ==
    \A k \in DOMAIN rets :
        rets[k].fn = "clean_filename" =>
            /\ \A u \in rets[k].urls : ~Contains(rets[k].name, u)
            /\ rets[k].urls # {} => ~Dangling(SplitExt(rets[k].name).name)
            /\ rets[k].input = TrackSpecimen \o DotMp3 =>
                  rets[k].name = TrackCleaned /\ CoolSite \in rets[k].urls

\* C24: the base name of what clean_filename returns holds none of the
\* characters < > : " / \ | ? *.
C24_NoInvalidCharacter ==
    \A k \in DOMAIN rets :
        rets[k].fn = "clean_filename" =>
            \A i \in DOMAIN SplitExt(rets[k].name).name :
                SplitExt(rets[k].name).name[i] \notin InvalidChars

=============================================================================
